---- MODULE Spec2Model ----
(***************************************************************************)
(* A model of the violet conversation engine (src/lib/conversationEngine.js)*)
(* : the ShortJSON codec of the goal stack, the goal stack kept in the      *)
(* session slot convoGoalState, the OutputMgr, the intent dispatch of       *)
(* InputMgr.processAllIntents and the goal loop of InputMgr._followGoals.   *)
(*                                                                         *)
(* JavaScript strings are sequences of one-character strings, so that the  *)
(* regular expressions and the split/join of the codec are computed on     *)
(* characters, as the code computes them.                                  *)
(***************************************************************************)
EXTENDS Integers, Sequences, FiniteSets, TLC

\* ------------------------------------------------------------------------
\* Characters and JavaScript string primitives
\* ------------------------------------------------------------------------

LowerChars == {"a","b","c","d","e","f","g","h","i","j","k","l","m",
               "n","o","p","q","r","s","t","u","v","w","x","y","z"}

UpperChars == {"A","B","C","D","E","F","G","H","I","J","K","L","M",
               "N","O","P","Q","R","S","T","U","V","W","X","Y","Z"}

\* \w of a JavaScript regular expression, over the characters the model uses
WordChars == LowerChars \cup UpperChars

\* the character at 1-based position p is a word character (FALSE outside s)
IsWordAt(s, p) == p >= 1 /\ p <= Len(s) /\ s[p] \in WordChars

\* \b holds between positions p-1 and p of s
WordBoundary(s, p) == IsWordAt(s, p - 1) # IsWordAt(s, p)

\* str occurs in s starting at position i
MatchAt(s, i, str) ==
  /\ i >= 1
  /\ i + Len(str) - 1 <= Len(s)
  /\ SubSeq(s, i, i + Len(str) - 1) = str

RECURSIVE SplitAcc(_, _, _, _, _)
SplitAcc(s, sep, i, cur, acc) ==
  IF i > Len(s) THEN Append(acc, cur)
  ELSE IF s[i] = sep THEN SplitAcc(s, sep, i + 1, <<>>, Append(acc, cur))
  ELSE SplitAcc(s, sep, i + 1, Append(cur, s[i]), acc)

\* String.prototype.split with a one-character separator
Split(s, sep) == SplitAcc(s, sep, 1, <<>>, <<>>)

RECURSIVE Join(_, _)
\* Array.prototype.join with a one-character separator
Join(arr, sep) ==
  IF Len(arr) = 0 THEN <<>>
  ELSE IF Len(arr) = 1 THEN arr[1]
  ELSE arr[1] \o <<sep>> \o Join(Tail(arr), sep)

\* s with the characters from..to-1 cut out
Cut(s, from, to) == SubSeq(s, 1, from - 1) \o SubSeq(s, to, Len(s))

\* ------------------------------------------------------------------------
\* ShortJSON (conversationEngine.js 418-472)
\* ------------------------------------------------------------------------

\* the property name 'key' of a goal object
KeyProp == <<"k","e","y">>

\* the flag _followGoals sets on a frame whose prompt/ask was queued
queried == <<"q","u","e","r","i","e","d">>

\* String(true): what a key overwritten by arrObj['key'] = true reads as
TrueStr == <<"t","r","u","e">>

\* sjnToArr without the test for the empty string
sjnToArrNoEmptyCase(str) == Split(str, ";")

sjnToArr(str) == IF str = <<>> THEN <<>> ELSE Split(str, ";")

arrToSJN(arr) == Join(arr, ";")

\* arrObj[prop] = true on an object whose own properties are key and the flags
SetFlag(obj, prop) ==
  IF prop = KeyProp THEN [obj EXCEPT !.key = TrueStr]
  ELSE IF \E n \in 1..Len(obj.flags) : obj.flags[n].name = prop
  THEN [obj EXCEPT !.flags =
          [n \in 1..Len(obj.flags) |->
             IF obj.flags[n].name = prop
             THEN [name |-> prop, val |-> TRUE] ELSE obj.flags[n]]]
  ELSE [obj EXCEPT !.flags = Append(obj.flags, [name |-> prop, val |-> TRUE])]

RECURSIVE SetFlags(_, _, _)
SetFlags(obj, props, ndx) ==
  IF ndx > Len(props) THEN obj
  ELSE SetFlags(SetFlag(obj, props[ndx]), props, ndx + 1)

\* one array item 'key:flagA:flagB' to its object
itemToObj(arrItem) ==
  LET props == Split(arrItem, ":")
  IN  SetFlags([key |-> props[1], flags |-> <<>>], props, 2)

arrToArrObj(arr) == [n \in 1..Len(arr) |-> itemToObj(arr[n])]

RECURSIVE FlagsToStr(_, _)
FlagsToStr(flags, ndx) ==
  IF ndx > Len(flags) THEN <<>>
  ELSE (IF flags[ndx].val THEN <<":">> \o flags[ndx].name ELSE <<>>)
       \o FlagsToStr(flags, ndx + 1)

\* one object to its array item: the key, then ':' + name for every truthy flag
objToItem(arrObjItem) == arrObjItem.key \o FlagsToStr(arrObjItem.flags, 1)

arrObjToArr(arrObj) == [n \in 1..Len(arrObj) |-> objToItem(arrObj[n])]

arrToArrObjKey(arr) == [n \in 1..Len(arr) |-> arrToArrObj(arr)[n].key]

\* the string is added at the front of the encoded list
arrPushFront(arr, str) == IF arr = <<>> THEN str ELSE str \o <<";">> \o arr

\* ShortJSON.arrPush: the string is added at the end of the encoded list
arrPush(arr, str) == IF arr = <<>> THEN str ELSE arr \o <<";">> \o str

\* sjnArr.match(new RegExp(`\\b${str}\\b`)) != null
inSJN(sjnArr, str) ==
  \E i \in 1..(Len(sjnArr) + 1) :
    /\ MatchAt(sjnArr, i, str)
    /\ WordBoundary(sjnArr, i)
    /\ WordBoundary(sjnArr, i + Len(str))

RECURSIVE AttrEnds(_, _)
\* the positions at which (:[a-z]*)* can stop when it starts at position j
AttrEnds(s, j) ==
  {j} \cup
  (IF j <= Len(s) /\ s[j] = ":"
   THEN LET run == {k \in 0..(Len(s) - j) :
                      \A m \in 1..k : s[j + m] \in LowerChars}
        IN  UNION {AttrEnds(s, j + 1 + k) : k \in run}
   ELSE {})

\* the ends (exclusive) of the matches of \bstr(:[a-z]*)*\b that start at i
ClearMatchEnds(s, i, str) ==
  IF MatchAt(s, i, str) /\ WordBoundary(s, i)
  THEN {e \in AttrEnds(s, i + Len(str)) : WordBoundary(s, e)}
  ELSE {}

Max(S) == CHOOSE x \in S : \A y \in S : y <= x

Min(S) == CHOOSE x \in S : \A y \in S : x <= y

\* the replace with the regular expression \bstr\b: the attributes stay behind
ReplaceGoalKeyOnly(s, str) ==
  LET starts == {i \in 1..(Len(s) + 1) :
                   /\ MatchAt(s, i, str)
                   /\ WordBoundary(s, i)
                   /\ WordBoundary(s, i + Len(str))}
  IN  IF starts = {} THEN s
      ELSE Cut(s, Min(starts), Min(starts) + Len(str))

\* s.replace(new RegExp(`\\b${str}(:[a-z]*)*\\b`), ''): the leftmost match,
\* taken greedily, is cut out
ReplaceGoal(s, str) ==
  LET starts == {i \in 1..(Len(s) + 1) : ClearMatchEnds(s, i, str) # {}}
  IN  IF starts = {} THEN s
      ELSE LET i == Min(starts)
           IN  Cut(s, i, Max(ClearMatchEnds(s, i, str)))

\* s.replace(/;;/, ';')
ReplaceSemiSemi(s) ==
  LET hits == {i \in 1..(Len(s) - 1) : s[i] = ";" /\ s[i + 1] = ";"}
  IN  IF hits = {} THEN s ELSE Cut(s, Min(hits), Min(hits) + 1)

\* s.replace(/;$/, '')
ReplaceSemiEnd(s) ==
  IF Len(s) > 0 /\ s[Len(s)] = ";" THEN SubSeq(s, 1, Len(s) - 1) ELSE s

\* s.replace(/^;/, '')
ReplaceSemiStart(s) ==
  IF Len(s) > 0 /\ s[1] = ";" THEN Tail(s) ELSE s

clearInSJN(sjnArr, str) ==
  ReplaceSemiStart(ReplaceSemiEnd(ReplaceSemiSemi(ReplaceGoal(sjnArr, str))))

\* ------------------------------------------------------------------------
\* generic utilities (conversationEngine.js 30-31)
\* ------------------------------------------------------------------------

\* JavaScript undefined, as a frame and as a session value
NoFrame == [key |-> <<"undefined">>, flags |-> <<>>]

undefined == "undefined"

\* the frame ndx below the top; arr[arr.length-ndx-1] is undefined past the array
topInArr(arr, ndx) ==
  IF Len(arr) = 0 \/ ndx >= Len(arr) \/ ndx < 0 THEN NoFrame
  ELSE arr[Len(arr) - ndx]

\* updateArr: the updated array (the code's TRUE), or arr itself (its FALSE)
updateArr(arr, ndx, newVal) ==
  IF Len(arr) = 0 \/ ndx < 0 \/ ndx >= Len(arr) THEN arr
  ELSE [arr EXCEPT ![Len(arr) - ndx] = newVal]

\* ------------------------------------------------------------------------
\* Bounds of the model
\* ------------------------------------------------------------------------

\* turns (webhook calls) one user makes
MaxTurns == 2

\* author resolvers add goals only while the stack holds fewer frames
MaxStack == 4

\* goal-loop iterations of one turn (the loop of a script whose resolvers
\* keep adding goals need not end)
MaxIters == 9

\* turns one user makes where the turns of two users interleave
MaxUserTurns == 1

\* frames of a frame list taken through the codec
MaxFrames == 2

\* ------------------------------------------------------------------------
\* The author's script: goals, intents and resolvers (the model's input)
\* ------------------------------------------------------------------------

Users == {"u1", "u2"}

NoUser == "none"

\* a goal-less IntentDef (intentDef.goal undefined) and the null goalName
NoGoal == <<>>

\* goal keys; C is a prefix of CD, so \b decides between them
checkInDetails == <<"C","D">>
bloodSugar == <<"B">>
goalC == <<"C">>
goalQ == <<"Q">>
goalR == <<"R">>
goalU == <<"U">>

\* convo.registeredGoals: goalU is pushed by the script but never defined
registeredGoals ==
  [k \in {checkInDetails, bloodSugar, goalC, goalQ, goalR} |->
     CASE k = checkInDetails ->
            [resolve |-> "checkInDetailsResolve", prompt |-> "", ask |-> ""]
       [] k = bloodSugar ->
            [resolve |-> "", prompt |-> "What was your blood sugar level?", ask |-> ""]
       [] k = goalC ->
            [resolve |-> "", prompt |-> "Did you check in?", ask |-> ""]
       [] k = goalQ ->
            [resolve |-> "", prompt |-> "", ask |-> "Which one?"]
       [] k = goalR ->
            [resolve |-> "authorGoal", prompt |-> "", ask |-> ""]]

\* the values the platform fills the slot bloodSugar with
SlotValues == {"120"}

\* the compiled intent table: idName -> the defs the platform intent was
\* registered with (in registration order) and its slot names
Intents ==
  [id \in {"Hello", "Author", "BloodSugar", "Yes"} |->
     CASE id = "Hello" ->
            [defs |-> <<[goal |-> NoGoal, resolve |-> "sayHi"]>>, slots |-> {}]
       [] id = "Author" ->
            [defs |-> <<[goal |-> NoGoal, resolve |-> "author"]>>, slots |-> {}]
       [] id = "BloodSugar" ->
            [defs |-> <<[goal |-> bloodSugar, resolve |-> "setBloodSugar"]>>,
             slots |-> {"bloodSugar"}]
       [] id = "Yes" ->
            [defs |-> <<[goal |-> goalC, resolve |-> "yesC"],
                        [goal |-> goalQ, resolve |-> "yesQ"],
                        [goal |-> bloodSugar, resolve |-> "yesB"]>>,
             slots |-> {}]]

launchPhrases == {"Yes. How can I help?", "Hey. Need me?", "Yup. I am here."}

\* what one call of an author callback does: the fragments it says, prompts
\* and asks, the goal it adds, the value it returns and how it returns it
\* (a plain value, a promise/generator that settles later, a throw, a
\* rejected promise, or a promise that never settles)
Quiet ==
  [say |-> "", prompts |-> 0, asks |-> 0, push |-> NoGoal, more |-> <<>>,
   setSlot |-> FALSE, ret |-> "undefined", mode |-> "value"]

PushKeys == {checkInDetails, bloodSugar, goalC, goalQ, goalR, goalU}

\* the goals a callback adds after its first one, when it adds several
PromptRuns == {<<bloodSugar, goalC>>, <<bloodSugar, goalC, bloodSugar>>}

\* the same, with a goal that has a resolver added last (on top)
ResolverRuns == {<<goalR>>}

AuthorEffects ==
  {[Quiet EXCEPT !.ret = r] : r \in {"true", "undefined", "false"}}
  \cup {[Quiet EXCEPT !.push = k, !.ret = "false"] : k \in PushKeys}
  \cup {[Quiet EXCEPT !.push = goalC, !.more = m, !.ret = "false"] :
          m \in PromptRuns \cup ResolverRuns}
  \cup {[Quiet EXCEPT !.say = "Sure."]}
  \cup {[Quiet EXCEPT !.prompts = n, !.ret = "false"] : n \in 1..2}
  \cup {[Quiet EXCEPT !.asks = n, !.ret = "false"] : n \in 1..2}
  \cup {[Quiet EXCEPT !.say = "Sure.", !.mode = m] :
          m \in {"promise", "throw", "reject", "never"}}

\* what one call of the resolver of goal R does
GoalEffects ==
  {[Quiet EXCEPT !.ret = r] : r \in {"true", "undefined", "false"}}
  \cup {[Quiet EXCEPT !.push = k, !.ret = "false"] : k \in {goalQ}}
  \cup {[Quiet EXCEPT !.say = "Sure.", !.mode = m] :
          m \in {"promise", "throw", "reject", "never"}}

\* ------------------------------------------------------------------------
\* State
\* ------------------------------------------------------------------------

VARIABLES
  session,     \* per user: the platform's session store
  platReq,     \* per user: the PlatformRequest of the turn in progress
  outputMgr,   \* convoEngine.outputMgr, the one OutputMgr of the process
  pc,          \* per user: where the turn's promise chain stands
  cpu,         \* the user whose turn holds the JavaScript thread, or NoUser
  resp,        \* per user: the Response of the turn (goalStateChanged)
  loop,        \* per user: the locals of _followGoals
  pending,     \* per user: the resolver call whose result is awaited
  hist,        \* per user: what the turn did so far (history, not program state)
  turns,       \* per user: turns (webhook calls) still to come
  codec,       \* a frame list taken through the ShortJSON codec
  reg,         \* the registration tables of the engine and of its platform
  parse        \* the utterances of one intent taken through ScriptParser

vars == <<session, platReq, outputMgr, pc, cpu, resp, loop, pending, hist, turns,
          codec, reg, parse>>

\* ------------------------------------------------------------------------
\* OutputMgr (conversationEngine.js 94-171)
\* ------------------------------------------------------------------------

\* a fragment of speech: its text, and the user whose turn produced it
Frag(text, u) == [text |-> text, by |-> u]

pauseStr == Frag(" <break time=\"500ms\"/> ", "engine")

Sep(text) == Frag(text, "engine")

\* initialize without emptying the say queue
omInitializeKeepSay(om) ==
  [om EXCEPT !.asked = 0, !.askQueue = <<>>, !.keepConversationRunning = TRUE]

omInitialize(om) ==
  [om EXCEPT !.asked = 0, !.sayQueue = <<>>, !.askQueue = <<>>,
             !.keepConversationRunning = TRUE]

\* say with unshift in the place of push: the fragment goes to the front
omSayFront(om, frag, quick) ==
  [om EXCEPT !.sayQueue =
     <<frag>> \o (IF Len(om.sayQueue) > 0 /\ ~quick THEN <<pauseStr>> ELSE <<>>)
     \o om.sayQueue]

omSay(om, frag, quick) ==
  [om EXCEPT !.sayQueue =
     (IF Len(om.sayQueue) > 0 /\ ~quick THEN Append(om.sayQueue, pauseStr)
      ELSE om.sayQueue) \o <<frag>>]

\* asked counts in hundredths: a prompt adds 0.34, an ask adds 1
PromptWeight == 34

AskWeight == 100

\* a prompt that does not count towards asked
omPromptUncounted(om, frag) ==
  [om EXCEPT !.askQueue = Append(om.askQueue, frag)]

omPrompt(om, frag) ==
  [om EXCEPT !.askQueue = Append(om.askQueue, frag),
             !.asked = om.asked + PromptWeight]

omAsk(om, frag) ==
  [om EXCEPT !.askQueue = Append(om.askQueue, frag),
             !.asked = om.asked + AskWeight]

RECURSIVE SayPart(_, _, _)
SayPart(q, ndx, outBuffer) ==
  IF ndx > Len(q) THEN outBuffer
  ELSE SayPart(q, ndx + 1,
               IF Len(outBuffer) = 0 THEN <<q[ndx]>>
               ELSE outBuffer \o <<Sep(" "), q[ndx]>>)

RECURSIVE AskPart(_, _, _)
AskPart(q, ndx, outBuffer) ==
  IF ndx > Len(q) THEN outBuffer
  ELSE AskPart(q, ndx + 1,
               IF Len(outBuffer) = 0 THEN <<q[ndx]>>
               ELSE IF ndx = 1 THEN outBuffer \o <<pauseStr, q[ndx]>>
               ELSE IF ndx = Len(q) THEN outBuffer \o <<Sep(" or "), q[ndx]>>
               ELSE outBuffer \o <<Sep(", "), q[ndx]>>)

\* the outBuffer sendFromQueue builds (fragment texts are never empty and
\* hold no ' & ')
outBufferOf(om, extra) ==
  LET sayQ == om.sayQueue \o extra
      plain == AskPart(om.askQueue, 1, SayPart(sayQ, 1, <<>>))
  IN  IF om.spokenRate # "null"
      THEN <<Sep("<prosody rate>")>> \o plain \o <<Sep("</prosody>")>>
      ELSE plain

\* sendFromQueue without its call of shouldEndSession
sendFromQueueNoKeep(om, req, extra) ==
  LET outBuffer == outBufferOf(om, extra)
  IN  [req EXCEPT
         !.said = IF outBuffer # <<>> THEN Append(req.said, outBuffer) ELSE req.said]

\* sendFromQueue's calls on the platform request
sendFromQueue(om, req, extra) ==
  LET outBuffer == outBufferOf(om, extra)
  IN  [req EXCEPT
         !.said = IF outBuffer # <<>> THEN Append(req.said, outBuffer) ELSE req.said,
         !.endSession = IF om.keepConversationRunning THEN "false" ELSE req.endSession]

\* ------------------------------------------------------------------------
\* The goal stack in the session (conversationEngine.js 600-656)
\* ------------------------------------------------------------------------

getGoalStates(sess) == arrToArrObj(sjnToArr(sess.convoGoalState))

getGoalNames(sess) == arrToArrObjKey(sjnToArr(sess.convoGoalState))

setGoalStates(sess, goalObjsArr) ==
  [sess EXCEPT !.convoGoalState = arrToSJN(arrObjToArr(goalObjsArr))]

appendGoal(sess, goalName) ==
  [sess EXCEPT !.convoGoalState = arrPush(sess.convoGoalState, goalName)]

clearGoal(sess, goalName) ==
  IF goalName = NoGoal THEN sess
  ELSE LET curGoals == sess.convoGoalState
           updatedGoals == clearInSJN(curGoals, goalName)
       IN  IF Len(curGoals) = Len(updatedGoals) THEN sess
           ELSE [sess EXCEPT !.convoGoalState = updatedGoals]

hasGoal(sess, goalName) == inSJN(sess.convoGoalState, goalName)

mostRecentGoalStates(sess, goalNdx) == topInArr(getGoalStates(sess), goalNdx)

\* the update that counts goalNdx from the bottom of the stack and writes
\* only the flags, keeping the key of the frame it finds there
updateGoalFlagsFromBottom(sess, goalNdx, goalWithState) ==
  LET goals == getGoalStates(sess)
  IN  IF Len(goals) = 0 \/ goalNdx < 0 \/ goalNdx >= Len(goals) THEN sess
      ELSE setGoalStates(sess,
             [goals EXCEPT ![goalNdx + 1].flags = goalWithState.flags])

updateMostRecentGoalStates(sess, goalNdx, goalWithState) ==
  LET goals == getGoalStates(sess)
      updated == updateArr(goals, goalNdx, goalWithState)
  IN  IF Len(goals) = 0 \/ goalNdx < 0 \/ goalNdx >= Len(goals) THEN sess
      ELSE setGoalStates(sess, updated)

\* ------------------------------------------------------------------------
\* Author callbacks and the Response facade
\* ------------------------------------------------------------------------

\* Response.goalFilled(child, slot), as checkInDetails' resolver uses it:
\* the child goal is added and false returned while the slot is empty
goalFilled(sess) ==
  IF sess.bloodSugar = undefined
  THEN [Quiet EXCEPT !.push = bloodSugar, !.ret = "false"]
  ELSE [Quiet EXCEPT !.say = "Logged."]

\* what the callback named cb may do when it is called on session sess
ResolverEffects(cb, sess) ==
  CASE cb = "sayHi" -> {[Quiet EXCEPT !.say = "Hi"]}
    [] cb = "launch" -> {[Quiet EXCEPT !.say = p] : p \in launchPhrases}
    [] cb = "setBloodSugar" -> {[Quiet EXCEPT !.setSlot = TRUE]}
    [] cb = "checkInDetailsResolve" -> {goalFilled(sess)}
    [] cb \in {"yesC", "yesQ", "yesB"} -> {[Quiet EXCEPT !.say = "Great."]}
    [] cb = "author" -> AuthorEffects
    [] cb = "authorGoal" -> GoalEffects

\* the callback adds goals only while the stack has room (MaxStack)
HasRoom(sess, eff) ==
  eff.push = NoGoal
  \/ Len(sjnToArr(sess.convoGoalState)) + Len(eff.more) < MaxStack

RECURSIVE Times(_, _, _, _)
\* om after n calls of prompt (kind "prompt") or ask (kind "ask") by u's turn
Times(om, kind, n, u) ==
  IF n = 0 THEN om
  ELSE Times(IF kind = "prompt" THEN omPrompt(om, Frag("author prompt", u))
             ELSE omAsk(om, Frag("author ask", u)),
             kind, n - 1, u)

\* Response.say / prompt / ask of the callback, routed to the OutputMgr
EffOm(om, eff, u) ==
  LET said == IF eff.say # "" THEN omSay(om, Frag(eff.say, u), FALSE) ELSE om
  IN  Times(Times(said, "prompt", eff.prompts, u), "ask", eff.asks, u)

\* the fragments of one callback call, in the order EffOm produces them
EffProduced(eff, u) ==
  (IF eff.say # "" THEN <<[kind |-> "say", frag |-> Frag(eff.say, u)]>> ELSE <<>>)
  \o [n \in 1..eff.prompts |-> [kind |-> "ask", frag |-> Frag("author prompt", u)]]
  \o [n \in 1..eff.asks |-> [kind |-> "ask", frag |-> Frag("author ask", u)]]

RECURSIVE AppendGoals(_, _, _)
\* Response.addGoal for each of the goals, in order
AppendGoals(sess, goals, ndx) ==
  IF ndx > Len(goals) THEN sess
  ELSE AppendGoals(appendGoal(sess, goals[ndx]), goals, ndx + 1)

\* Response.addGoal / Response.set of the callback on the session
EffSess(sess, eff) ==
  LET pushed == IF eff.push # NoGoal
                THEN AppendGoals(appendGoal(sess, eff.push), eff.more, 1)
                ELSE sess
  IN  IF eff.setSlot THEN [pushed EXCEPT !.bloodSugar = sess.bloodSugar] ELSE pushed

\* Response.addGoal sets goalStateChanged
EffResp(r, eff) ==
  IF eff.push # NoGoal THEN [r EXCEPT !.goalStateChanged = TRUE] ELSE r

\* where the chain stands once the callback has been called
AfterCall(eff, waiting) == IF eff.mode = "throw" THEN "failed" ELSE waiting

\* a callback that returns a promise gives the thread up until it settles
CpuAfterCall(eff, u) == IF eff.mode \in {"value", "throw"} THEN u ELSE NoUser

\* ------------------------------------------------------------------------
\* InputMgr (conversationEngine.js 277-411)
\* ------------------------------------------------------------------------

NoPending == [cb |-> "", goalName |-> NoGoal, eff |-> Quiet]

NoLoop == [goalNdx |-> -1, moreGoalsToSeek |-> TRUE, lastGoalWithState |-> 0,
           decoded |-> 0]

\* what a turn did: the intent and the def chosen for it, the frames at
\* dispatch, the frames and asked when the loop started (startLen -1 before),
\* the loop's iterations, the callbacks called, whether a callback called
\* from the loop added a goal, whether one call asked for more than 1, what
\* held when the loop met an undefined goal, the session before the turn, and
\* the fragments produced so far, in the order they were produced
NoHist == [intent |-> "", selNdx |-> 0, frames |-> <<>>, startLen |-> -1,
           loopStart |-> <<>>, startAsked |-> 0, iters |-> 0, calls |-> 0,
           loopPush |-> FALSE, overAsk |-> FALSE,
           unknown |-> [hit |-> FALSE, goals |-> <<>>, out |-> <<>>, calls |-> 0],
           pre |-> [convoGoalState |-> <<>>, bloodSugar |-> undefined],
           produced |-> <<>>]

\* what one call of a callback adds to asked
Contribution(eff) == eff.prompts * PromptWeight + eff.asks * AskWeight

\* goalNdx when goalStateChanged is never put back to false: always the top
NextGoalNdxAlwaysReset(goalStateChanged, goalNdx) == 0

\* goalNdx of the iteration: reset when the goal state changed, then advanced
NextGoalNdx(goalStateChanged, goalNdx) ==
  (IF goalStateChanged THEN -1 ELSE goalNdx) + 1

NoReq == [slots |-> {}, said |-> <<>>, endSession |-> "unset"]

NoResp == [goalStateChanged |-> FALSE]

RECURSIVE WalkDefs(_, _, _)
\* the inner for loop of processAllIntents: the first def of intentDefArr,
\* from ndx2 on, whose goal is key (0 when there is none)
WalkDefs(intentDefArr, key, ndx2) ==
  IF ndx2 > Len(intentDefArr) THEN 0
  ELSE IF intentDefArr[ndx2].goal # NoGoal /\ intentDefArr[ndx2].goal = key THEN ndx2
  ELSE WalkDefs(intentDefArr, key, ndx2 + 1)

\* the walk over the stack started at its bottom: the def for the oldest
\* frame that matches one
WalkStackFromBottom(intentDefArr, sess, ndx) ==
  LET frames == getGoalStates(sess)
      hits == {n \in 1..Len(frames) : WalkDefs(intentDefArr, frames[n].key, 1) # 0}
  IN  IF hits = {} THEN 1
      ELSE WalkDefs(intentDefArr, frames[Min(hits)].key, 1)

RECURSIVE WalkStack(_, _, _)
\* the while loop of processAllIntents over mostRecentGoalStates(ndx++)
WalkStack(intentDefArr, sess, ndx) ==
  LET currentGoalState == mostRecentGoalStates(sess, ndx)
  IN  IF currentGoalState = NoFrame THEN 1
      ELSE IF WalkDefs(intentDefArr, currentGoalState.key, 1) # 0
      THEN WalkDefs(intentDefArr, currentGoalState.key, 1)
      ELSE WalkStack(intentDefArr, sess, ndx + 1)

\* the index (from 1) in intentDefArr of the def processAllIntents runs
SelectIntentDef(intentDefArr, sess) ==
  IF Len(intentDefArr) = 1 THEN 1 ELSE WalkStack(intentDefArr, sess, 0)

\* the chosen def's callback passed on without the def's goal
SelectedDefWithoutGoal(intentDefArr, ndx) ==
  [goal |-> NoGoal, resolve |-> intentDefArr[ndx].resolve]

\* the goal and the callback processAllIntents passes on to _processIntent
SelectedDef(intentDefArr, ndx) == intentDefArr[ndx]

\* processAllIntents without its copy of the request's slots
CopySlotsNone(sess, slots, slotVal) == sess

\* the request's slots copied into the session
CopySlots(sess, slots, slotVal) ==
  IF "bloodSugar" \in slots THEN [sess EXCEPT !.bloodSugar = slotVal] ELSE sess

\* _processIntent up to the call of the intent's callback in _followGoals:
\* a new Response, setSpeaking, initialize, resolveGoal(intentResolveCB)
ProcessIntent(u, sess, req, goalName, cb, eff, h) ==
  /\ HasRoom(sess, eff)
  /\ session' = [session EXCEPT ![u] = EffSess(sess, eff)]
  /\ platReq' = [platReq EXCEPT ![u] = req]
  /\ outputMgr' = EffOm(omInitialize([outputMgr EXCEPT !.speaking = TRUE]), eff, u)
  /\ resp' = [resp EXCEPT ![u] = EffResp(NoResp, eff)]
  /\ loop' = [loop EXCEPT ![u] = NoLoop]
  /\ pending' = [pending EXCEPT ![u] = [cb |-> cb, goalName |-> goalName, eff |-> eff]]
  /\ pc' = [pc EXCEPT ![u] = AfterCall(eff, "intentPending")]
  /\ cpu' = CpuAfterCall(eff, u)
  /\ hist' = [hist EXCEPT ![u] =
       [h EXCEPT !.calls = 1, !.overAsk = Contribution(eff) > AskWeight,
                 !.produced = EffProduced(eff, u)]]
  /\ turns' = [turns EXCEPT ![u] = turns[u] - 1]
  /\ UNCHANGED <<codec, reg, parse>>

\* the platform calls the handler _registerIntentDef registered for idName
IntentArrives(u, idName, slotVal) ==
  /\ pc[u] = "idle"
  /\ cpu = NoUser
  /\ turns[u] > 0
  /\ LET intentDefArr == Intents[idName].defs
         sess == CopySlots(session[u], Intents[idName].slots, slotVal)
         ndx == SelectIntentDef(intentDefArr, sess)
         req == [NoReq EXCEPT !.slots = Intents[idName].slots]
         h == [NoHist EXCEPT !.intent = idName, !.selNdx = ndx,
                             !.frames = getGoalStates(sess),
                             !.pre = session[u]]
         def == SelectedDef(intentDefArr, ndx)
     IN  \E eff \in ResolverEffects(def.resolve, sess) :
           ProcessIntent(u, sess, req, def.goal, def.resolve, eff, h)

\* the platform calls the onLaunch handler (conversationEngine.js 549-561)
Launch(u) ==
  /\ pc[u] = "idle"
  /\ cpu = NoUser
  /\ turns[u] > 0
  /\ \E eff \in ResolverEffects("launch", session[u]) :
       ProcessIntent(u, session[u], NoReq, NoGoal, "launch", eff,
                     [NoHist EXCEPT !.intent = "launch",
                                    !.frames = getGoalStates(session[u]),
                                    !.pre = session[u]])

\* the .then of resolveGoal: the callback's result has arrived
Settle(u) ==
  /\ pc[u] \in {"intentPending", "goalPending"}
  /\ pending[u].eff.mode \in {"value", "promise", "reject"}
  /\ cpu = CpuAfterCall(pending[u].eff, u)
  /\ cpu' = u
  /\ IF pending[u].eff.mode = "reject"
     THEN /\ pc' = [pc EXCEPT ![u] = "failed"]
          /\ UNCHANGED <<session, hist>>
     ELSE /\ pc' = [pc EXCEPT ![u] = "loop"]
          /\ session' = [session EXCEPT ![u] =
               IF pending[u].eff.ret \in {"true", "undefined"}
               THEN clearGoal(session[u], pending[u].goalName)
               ELSE session[u]]
          /\ hist' = [hist EXCEPT ![u] =
               IF pc[u] = "intentPending"
               THEN [hist[u] EXCEPT
                       !.startLen = Len(getGoalStates(session'[u])),
                       !.loopStart = getGoalStates(session'[u]),
                       !.startAsked = outputMgr.asked]
               ELSE hist[u]]
  /\ pending' = [pending EXCEPT ![u] = NoPending]
  /\ UNCHANGED <<platReq, outputMgr, resp, loop, turns, codec, reg, parse>>

\* the loop test without its asked < 1 part
MoreToDoIgnoringAsked(u) == loop[u].moreGoalsToSeek

\* the loop test with asked <= 1 in the place of asked < 1
MoreToDoAskedAtMostOne(u) ==
  outputMgr.asked <= AskWeight /\ loop[u].moreGoalsToSeek

\* the loop test of promiseWhile
MoreToDo(u) == outputMgr.asked < AskWeight /\ loop[u].moreGoalsToSeek

goalDefQueryable(goalDef) == goalDef.prompt # "" \/ goalDef.ask # ""

\* goalWithState.queried read as always falsy
IsQueriedNever(goalWithState) == FALSE

\* goalWithState.queried
IsQueried(goalWithState) ==
  \E n \in 1..Len(goalWithState.flags) :
    goalWithState.flags[n].name = queried /\ goalWithState.flags[n].val

\* the locals when the goal at the cursor is not defined: keep the cursor
\* and go on with the goals below
KeepSeeking(lp, obj) == [lp EXCEPT !.lastGoalWithState = obj]

\* the locals when the goal at the cursor is not defined: the loop is to stop
StopSeeking(lp, obj) ==
  [lp EXCEPT !.moreGoalsToSeek = FALSE, !.lastGoalWithState = obj]

\* one run of the loop body of _followGoals
LoopBody(u) ==
  /\ pc[u] = "loop"
  /\ cpu = u
  /\ MoreToDo(u)
  /\ hist[u].iters < MaxIters
  /\ LET goalNdx == NextGoalNdx(resp[u].goalStateChanged, loop[u].goalNdx)
         goalWithState == mostRecentGoalStates(session[u], goalNdx)
         obj == loop[u].decoded + 1
         lp == [loop[u] EXCEPT !.goalNdx = goalNdx, !.decoded = obj]
         h == [hist[u] EXCEPT !.iters = hist[u].iters + 1]
     IN
     /\ IF goalWithState = NoFrame \/ obj = loop[u].lastGoalWithState
        THEN /\ loop' = [loop EXCEPT ![u] = [lp EXCEPT !.moreGoalsToSeek = FALSE]]
             /\ hist' = [hist EXCEPT ![u] = h]
             /\ resp' = [resp EXCEPT ![u].goalStateChanged = FALSE]
             /\ UNCHANGED <<session, outputMgr, pending, pc, cpu>>
        ELSE IF goalWithState.key \notin DOMAIN registeredGoals
        THEN /\ loop' = [loop EXCEPT ![u] = StopSeeking(lp, obj)]
             /\ hist' = [hist EXCEPT ![u] =
                  [h EXCEPT !.unknown =
                     [hit |-> TRUE, goals |-> session[u].convoGoalState,
                      out |-> outBufferOf(outputMgr, <<>>), calls |-> h.calls]]]
             /\ resp' = [resp EXCEPT ![u].goalStateChanged = FALSE]
             /\ UNCHANGED <<session, outputMgr, pending, pc, cpu>>
        ELSE LET tgtGoalDef == registeredGoals[goalWithState.key]
                 lp2 == [lp EXCEPT !.lastGoalWithState = obj]
             IN
             IF tgtGoalDef.resolve # ""
             THEN \E eff \in ResolverEffects(tgtGoalDef.resolve, session[u]) :
                    /\ HasRoom(session[u], eff)
                    /\ session' = [session EXCEPT ![u] = EffSess(session[u], eff)]
                    /\ outputMgr' = EffOm(outputMgr, eff, u)
                    /\ resp' = [resp EXCEPT ![u] =
                         EffResp([goalStateChanged |-> FALSE], eff)]
                    /\ pending' = [pending EXCEPT ![u] =
                         [cb |-> tgtGoalDef.resolve, goalName |-> goalWithState.key,
                          eff |-> eff]]
                    /\ pc' = [pc EXCEPT ![u] = AfterCall(eff, "goalPending")]
                    /\ cpu' = CpuAfterCall(eff, u)
                    /\ loop' = [loop EXCEPT ![u] = lp2]
                    /\ hist' = [hist EXCEPT ![u] =
                         [h EXCEPT !.calls = h.calls + 1,
                                   !.loopPush = h.loopPush \/ eff.push # NoGoal,
                                   !.overAsk = h.overAsk
                                               \/ Contribution(eff) > AskWeight,
                                   !.produced = h.produced \o EffProduced(eff, u)]]
             ELSE IF goalDefQueryable(tgtGoalDef) /\ IsQueried(goalWithState)
             THEN /\ loop' = [loop EXCEPT ![u] = lp2]
                  /\ hist' = [hist EXCEPT ![u] = h]
                  /\ resp' = [resp EXCEPT ![u].goalStateChanged = FALSE]
                  /\ UNCHANGED <<session, outputMgr, pending, pc, cpu>>
             ELSE IF goalDefQueryable(tgtGoalDef) /\ ~IsQueried(goalWithState)
             THEN /\ outputMgr' =
                       IF tgtGoalDef.prompt # ""
                       THEN omPrompt(outputMgr, Frag(tgtGoalDef.prompt, u))
                       ELSE omAsk(outputMgr, Frag(tgtGoalDef.ask, u))
                  /\ session' = [session EXCEPT ![u] =
                       updateMostRecentGoalStates(session[u], goalNdx,
                                                  SetFlag(goalWithState, queried))]
                  /\ loop' = [loop EXCEPT ![u] = lp2]
                  /\ hist' = [hist EXCEPT ![u] =
                       [h EXCEPT !.produced = Append(h.produced,
                          [kind |-> "ask",
                           frag |-> Frag(IF tgtGoalDef.prompt # ""
                                         THEN tgtGoalDef.prompt
                                         ELSE tgtGoalDef.ask, u)])]]
                  /\ resp' = [resp EXCEPT ![u].goalStateChanged = FALSE]
                  /\ UNCHANGED <<pending, pc, cpu>>
             ELSE /\ loop' = [loop EXCEPT ![u] = lp2]
                  /\ hist' = [hist EXCEPT ![u] = h]
                  /\ resp' = [resp EXCEPT ![u].goalStateChanged = FALSE]
                  /\ UNCHANGED <<session, outputMgr, pending, pc, cpu>>
  /\ UNCHANGED <<platReq, turns, codec, reg, parse>>

\* the loop test fails: the chain goes on to the .then of _processIntent
LoopExit(u) ==
  /\ pc[u] = "loop"
  /\ cpu = u
  /\ ~MoreToDo(u)
  /\ pc' = [pc EXCEPT ![u] = "flush"]
  /\ UNCHANGED <<session, platReq, outputMgr, cpu, resp, loop, pending, hist, turns, codec, reg, parse>>

\* the .then of _processIntent: sendFromQueue, initialize, clearSpeaking
Flush(u) ==
  /\ pc[u] = "flush"
  /\ cpu = u
  /\ platReq' = [platReq EXCEPT ![u] = sendFromQueue(outputMgr, platReq[u], <<>>)]
  /\ outputMgr' = [omInitialize(outputMgr) EXCEPT !.speaking = FALSE]
  /\ pc' = [pc EXCEPT ![u] = "done"]
  /\ cpu' = NoUser
  /\ UNCHANGED <<session, resp, loop, pending, hist, turns, codec, reg, parse>>

\* the identifier requ of the onError handler is bound in its scope
requInScope == FALSE

\* the handler given to platforms.onError (conversationEngine.js 544-548):
\* console.log(requ) is evaluated before sendFromQueue is called
onErrorHandler(om, req, u) ==
  IF requInScope
  THEN sendFromQueue(om, req, <<Frag("Sorry an error occurred", u)>>)
  ELSE req

\* a callback threw or its promise was rejected: the platform calls the
\* error hook
PlatformError(u) ==
  /\ pc[u] = "failed"
  /\ cpu = u
  /\ platReq' = [platReq EXCEPT ![u] = onErrorHandler(outputMgr, platReq[u], u)]
  /\ pc' = [pc EXCEPT ![u] = "errored"]
  /\ cpu' = NoUser
  /\ UNCHANGED <<session, outputMgr, resp, loop, pending, hist, turns, codec, reg, parse>>

\* the adapter has returned the response: the per-request objects are dropped
TurnEnd(u) ==
  /\ pc[u] \in {"done", "errored"}
  /\ pc' = [pc EXCEPT ![u] = "idle"]
  /\ platReq' = [platReq EXCEPT ![u] = NoReq]
  /\ resp' = [resp EXCEPT ![u] = NoResp]
  /\ loop' = [loop EXCEPT ![u] = NoLoop]
  /\ pending' = [pending EXCEPT ![u] = NoPending]
  /\ hist' = [hist EXCEPT ![u] = NoHist]
  /\ UNCHANGED <<session, outputMgr, cpu, turns, codec, reg, parse>>

\* ------------------------------------------------------------------------
\* Specifications
\* ------------------------------------------------------------------------

NewOutputMgr(rate) ==
  [spokenRate |-> rate, asked |-> 0, sayQueue |-> <<>>, askQueue |-> <<>>,
   keepConversationRunning |-> TRUE, speaking |-> FALSE]

\* no utterances are being parsed
NoParse ==
  [pos |-> "off", expecting |-> <<>>, userSpeech |-> <<>>, keyTypes |-> <<>>,
   phraseEquivalents |-> <<>>, expectedParams |-> <<>>]

NoCodec ==
  [pos |-> "off", L |-> <<>>, sjn |-> <<>>, back |-> <<>>, key |-> <<>>, out |-> <<>>]

\* ------------------------------------------------------------------------
\* Registration: respondTo, defineGoal, addInputTypes, registerIntents
\* ------------------------------------------------------------------------

\* registration calls of one script (bound)
MaxCalls == 4

\* what the user may say: plain phrases, without punctuation, digits, slots
\* or phrase equivalents, so that ScriptParser leaves them as they are
Utterances == {"a", "b", "s"}

NoName == ""

\* the names an author gives to intent definitions, one for each definition
DefNames == <<"N1", "N2", "N3", "N4", "N5", "N6">>

Expectings == {<<"a", "s">>, <<"s">>, <<"b">>}

\* the intentDef objects passed to respondTo; id is the object's identity
IntentDefs(id) ==
  {[name |-> n, expecting |-> e, goal |-> NoGoal] :
     n \in {NoName, DefNames[id]}, e \in Expectings}

RegGoalKeys == {checkInDetails, bloodSugar}

NoGoalDef == [goal |-> NoGoal, resolve |-> "", prompt |-> "", ask |-> "",
              respondTo |-> <<>>]

\* the goalObj objects passed to defineGoal
GoalObjs ==
  {[NoGoalDef EXCEPT !.goal = checkInDetails, !.resolve = "checkInDetailsResolve"]}
  \cup {[NoGoalDef EXCEPT !.goal = bloodSugar, !.resolve = r,
                          !.prompt = "What was your blood sugar level?",
                          !.respondTo = n] :
          r \in {"", "bloodSugarResolve"},
          n \in {<<>>,
                 <<[name |-> NoName, expecting |-> <<"s">>, goal |-> NoGoal]>>,
                 <<[name |-> NoName, expecting |-> <<"a", "s">>,
                    goal |-> checkInDetails]>>}}

SlotNames == {"name"}

\* keyTypes[name] undefined
NoType == [type |-> "", values |-> {}]

\* a built-in type is its name; a custom type is an object with values
KeyTypes ==
  {[type |-> "AMAZON.US_FIRST_NAME", values |-> {}],
   [type |-> "nameType", values |-> {"Ann", "Bo"}]}

\* the objects passed to addInputTypes
InputTypes == UNION {[S -> KeyTypes] : S \in (SUBSET SlotNames) \ {{}}}

NoAtReg == [keyTypes |-> [n \in SlotNames |-> NoType],
            registeredGoals |-> [g \in RegGoalKeys |-> NoGoalDef],
            chooses |-> <<>>, errors |-> {}]

\* convo.allIntents, convo.userSpeechDef (with the order of its keys),
\* convo.registeredGoals, convo.keyTypes, the intentDef objects by identity,
\* _registeredIntents, the calls of platforms.regIntent and the platform's
\* customSlots; then history: the number of calls, the last one, how
\* registerIntents ended, the author errors made, the tables as
\* registerIntents left them
NoReg ==
  [allIntents |-> <<>>,
   userSpeechDef |-> [u \in Utterances |-> <<>>],
   speechKeys |-> <<>>,
   registeredGoals |-> [g \in RegGoalKeys |-> NoGoalDef],
   keyTypes |-> [n \in SlotNames |-> NoType],
   defs |-> <<>>,
   registeredIntents |-> 0,
   regCalls |-> <<>>,
   customSlots |-> {},
   calls |-> 0, last |-> "", outcome |-> "none", errors |-> {},
   atReg |-> NoAtReg]

Alphabet ==
  <<"A", "B", "C", "D", "E", "F", "G", "H", "I", "J", "K", "L", "M",
    "N", "O", "P", "Q", "R", "S", "T", "U", "V", "W", "X", "Y", "Z">>

RECURSIVE AlphabeticDigits(_)
\* the digits of n to the base 26, each as the letter at that index
AlphabeticDigits(n) ==
  IF n < Len(Alphabet) THEN Alphabet[n + 1]
  ELSE AlphabeticDigits(n \div Len(Alphabet)) \o Alphabet[(n % Len(Alphabet)) + 1]

\* _genIntentName for the value n of _registeredIntents
genIntentName(n) == "Intent" \o AlphabeticDigits(n)

RECURSIVE indexSpeech(_, _, _, _)
\* respondTo's forEach: the definition is pushed on the list of each of its
\* utterances, a list that is created for an utterance not seen before
indexSpeech(r, expecting, id, ndx) ==
  IF ndx > Len(expecting) THEN r
  ELSE LET userSpeechItem == expecting[ndx]
           isNew == r.userSpeechDef[userSpeechItem] = <<>>
       IN indexSpeech(
            [r EXCEPT !.speechKeys = IF isNew THEN Append(@, userSpeechItem) ELSE @,
                      !.userSpeechDef[userSpeechItem] = Append(@, id)],
            expecting, id, ndx + 1)

\* ConversationEngine.respondTo on the tables r
respondTo(r, intentDef) ==
  indexSpeech([r EXCEPT !.defs = Append(@, intentDef),
                        !.allIntents = Append(@, intentDef.expecting)],
              intentDef.expecting, Len(r.defs) + 1, 1)

RECURSIVE respondToAllKeepGoal(_, _, _, _)
\* defineGoal's forEach without intentDef.goal = goalObj.goal
respondToAllKeepGoal(r, goal, intentDefs, ndx) ==
  IF ndx > Len(intentDefs) THEN r
  ELSE respondToAllKeepGoal(respondTo(r, intentDefs[ndx]), goal, intentDefs, ndx + 1)

RECURSIVE respondToAll(_, _, _, _)
\* defineGoal's forEach over goalObj.respondTo
respondToAll(r, goal, intentDefs, ndx) ==
  IF ndx > Len(intentDefs) THEN r
  ELSE respondToAll(respondTo(r, [intentDefs[ndx] EXCEPT !.goal = goal]),
                    goal, intentDefs, ndx + 1)

\* ConversationEngine.defineGoal on the tables r
defineGoal(r, goalObj) ==
  LET nested == [n \in 1..Len(goalObj.respondTo) |->
                   [goalObj.respondTo[n] EXCEPT !.goal = goalObj.goal]]
  IN respondToAll(
       [r EXCEPT !.registeredGoals[goalObj.goal] =
                    [goalObj EXCEPT !.respondTo = nested]],
       goalObj.goal, goalObj.respondTo, 1)

\* ConversationEngine.addInputTypes on the tables r
addInputTypes(r, keyTypes) ==
  [r EXCEPT !.keyTypes = [n \in SlotNames |->
                            IF n \in DOMAIN keyTypes THEN keyTypes[n] ELSE @[n]]]

RECURSIVE FirstName(_, _, _)
\* the name of the first definition of the list that has one
FirstName(defs, intentDefArr, idNdx) ==
  IF idNdx > Len(intentDefArr) THEN NoName
  ELSE IF defs[intentDefArr[idNdx]].name # NoName
       THEN defs[intentDefArr[idNdx]].name
       ELSE FirstName(defs, intentDefArr, idNdx + 1)

\* _registerIntentDef: intentDefArr is the list userSpeechDef[ref] itself, not
\* a copy of it, and the handler reads it when the intent arrives
registerIntentDef(r, userSpeech, ref) ==
  LET named == FirstName(r.defs, r.userSpeechDef[ref], 1)
      idName == IF named = NoName THEN genIntentName(r.registeredIntents) ELSE named
  IN [r EXCEPT !.registeredIntents = IF named = NoName THEN @ + 1 ELSE @,
               !.regCalls = Append(@, [name |-> idName, utterances |-> userSpeech,
                                       ref |-> ref])]

RECURSIVE firstPass(_, _)
\* the first pass of _registerIntents: for each respondTo call the utterances
\* that have one definition, registered together
firstPass(r, ndx) ==
  IF ndx > Len(r.allIntents) THEN r
  ELSE LET local(userSpeechItem) == Len(r.userSpeechDef[userSpeechItem]) = 1
           userSpeech == SelectSeq(r.allIntents[ndx], local)
       IN firstPass(IF Len(userSpeech) > 0
                    THEN registerIntentDef(r, userSpeech, userSpeech[Len(userSpeech)])
                    ELSE r,
                    ndx + 1)

RECURSIVE secondPass(_, _)
\* the second pass of _registerIntents: each utterance that has several
\* definitions, registered on its own
secondPass(r, ndx) ==
  IF ndx > Len(r.speechKeys) THEN r
  ELSE LET userSpeechItem == r.speechKeys[ndx]
       IN secondPass(IF Len(r.userSpeechDef[userSpeechItem]) = 1 THEN r
                     ELSE registerIntentDef(r, <<userSpeechItem>>, userSpeechItem),
                     ndx + 1)

\* the end of _registerIntents: the custom slots
regCustomSlots(r) ==
  [r EXCEPT !.customSlots =
     {[type |-> r.keyTypes[kt].type, values |-> r.keyTypes[kt].values] :
        kt \in {n \in SlotNames : r.keyTypes[n].values # {}}}]

\* ConversationEngine.registerIntents without a flow script
registerIntents(r) == regCustomSlots(secondPass(firstPass(r, 1), 1))

\* GooglePlatform.regIntent: intentHandlers and intentParams keep, for each
\* name, what the last call under that name registered
intentHandlers(regCalls) ==
  {regCalls[n] : n \in {m \in 1..Len(regCalls) :
                          \A k \in (m + 1)..Len(regCalls) :
                            regCalls[k].name # regCalls[m].name}}

\* the definitions among which a registered intent chooses when it arrives
intentDefArr(r, handler) == r.userSpeechDef[handler.ref]

InitEngine(budget) ==
  /\ session = [u \in Users |-> [convoGoalState |-> <<>>, bloodSugar |-> undefined]]
  /\ platReq = [u \in Users |-> NoReq]
  /\ \E rate \in {"null", "fast"} : outputMgr = NewOutputMgr(rate)
  /\ pc = [u \in Users |-> "idle"]
  /\ cpu = NoUser
  /\ resp = [u \in Users |-> NoResp]
  /\ loop = [u \in Users |-> NoLoop]
  /\ pending = [u \in Users |-> NoPending]
  /\ hist = [u \in Users |-> NoHist]
  /\ turns = budget

\* one user's conversation of MaxTurns turns
Init ==
  /\ InitEngine([u \in Users |-> IF u = "u1" THEN MaxTurns ELSE 0])
  /\ codec = NoCodec
  /\ reg = NoReg
  /\ parse = NoParse

Step(u) ==
  \/ \E idName \in DOMAIN Intents, slotVal \in SlotValues :
       IntentArrives(u, idName, slotVal)
  \/ Launch(u)
  \/ Settle(u)
  \/ LoopBody(u)
  \/ LoopExit(u)
  \/ Flush(u)
  \/ PlatformError(u)
  \/ TurnEnd(u)

Next == \E u \in Users : Step(u)

Spec == Init /\ [][Next]_vars

\* the turns of two users, interleaved where a callback awaits a promise
InitUsers ==
  /\ InitEngine([u \in Users |-> MaxUserTurns])
  /\ codec = NoCodec
  /\ reg = NoReg
  /\ parse = NoParse

SpecUsers == InitUsers /\ [][Next]_vars

\* ------------------------------------------------------------------------
\* The ShortJSON codec on frame lists (setGoalStates, then getGoalStates)
\* ------------------------------------------------------------------------

\* goal keys of the codec's frame lists; the last is also the name of a flag
CodecKeys == {<<"A">>, <<"A","b">>, <<"q">>, <<"x">>}

FlagX == <<"x">>

\* the flags of a goal object, in the order they were set; the last one
\* holds a flag that is not true
CodecFlags ==
  {<<>>,
   <<[name |-> queried, val |-> TRUE]>>,
   <<[name |-> FlagX, val |-> TRUE]>>,
   <<[name |-> queried, val |-> TRUE], [name |-> FlagX, val |-> TRUE]>>,
   <<[name |-> FlagX, val |-> TRUE], [name |-> queried, val |-> TRUE]>>,
   <<[name |-> queried, val |-> FALSE]>>}

CodecFrames == {[key |-> k, flags |-> f] : k \in CodecKeys, f \in CodecFlags}

\* the frame lists of up to MaxFrames frames
FrameLists == UNION {[1..n -> CodecFrames] : n \in 0..MaxFrames}

InitCodec ==
  /\ InitEngine([u \in Users |-> 0])
  /\ \E L \in FrameLists : codec = [NoCodec EXCEPT !.pos = "in", !.L = L]
  /\ reg = NoReg
  /\ parse = NoParse

\* setGoalStates: arrToSJN(arrObjToArr(goalObjsArr))
Encode ==
  /\ codec.pos = "in"
  /\ codec' = [codec EXCEPT !.pos = "encoded", !.sjn = arrToSJN(arrObjToArr(codec.L))]
  /\ UNCHANGED <<session, platReq, outputMgr, pc, cpu, resp, loop, pending, hist, turns, reg, parse>>

\* getGoalStates: arrToArrObj(sjnToArr(raw))
Decode ==
  /\ codec.pos = "encoded"
  /\ codec' = [codec EXCEPT !.pos = "decoded", !.back = arrToArrObj(sjnToArr(codec.sjn))]
  /\ UNCHANGED <<session, platReq, outputMgr, pc, cpu, resp, loop, pending, hist, turns, reg, parse>>

\* clearInSJN on the encoded list, for a key str
Remove ==
  /\ codec.pos = "encoded"
  /\ \E str \in CodecKeys :
       codec' = [codec EXCEPT !.pos = "removed", !.key = str,
                              !.out = clearInSJN(codec.sjn, str)]
  /\ UNCHANGED <<session, platReq, outputMgr, pc, cpu, resp, loop, pending, hist, turns, reg, parse>>

\* the session that holds the encoded list sjn
CodecSession(sjn) == [convoGoalState |-> sjn, bloodSugar |-> undefined]

\* addGoal on the encoded list, for a goal name str
AddGoal ==
  /\ codec.pos = "encoded"
  /\ \E str \in CodecKeys :
       codec' = [codec EXCEPT !.pos = "added", !.key = str,
                              !.out = appendGoal(CodecSession(codec.sjn), str).convoGoalState]
  /\ UNCHANGED <<session, platReq, outputMgr, pc, cpu, resp, loop, pending, hist, turns, reg, parse>>

NextCodec == Encode \/ Decode \/ Remove \/ AddGoal

SpecCodec == InitCodec /\ [][NextCodec]_vars

\* ------------------------------------------------------------------------
\* The registration phase of a script
\* ------------------------------------------------------------------------

InitReg ==
  /\ InitEngine([u \in Users |-> 0])
  /\ codec = NoCodec
  /\ reg = NoReg
  /\ parse = NoParse

Called(r, op) == [r EXCEPT !.calls = @ + 1, !.last = op]

RespondTo ==
  /\ reg.calls < MaxCalls
  /\ \E intentDef \in IntentDefs(Len(reg.defs) + 1) :
       reg' = Called(respondTo(reg, intentDef), "respondTo")
  /\ UNCHANGED <<session, platReq, outputMgr, pc, cpu, resp, loop, pending, hist,
                 turns, codec, parse>>

\* the author errors of a goal definition
GoalErrors(r, goalObj) ==
  (IF r.registeredGoals[goalObj.goal] # NoGoalDef THEN {"duplicate"} ELSE {})
  \cup (IF goalObj.resolve # "" /\ (goalObj.prompt # "" \/ goalObj.ask # "")
        THEN {"shape"} ELSE {})

DefineGoal ==
  /\ reg.calls < MaxCalls
  /\ \E goalObj \in GoalObjs :
       reg' = [Called(defineGoal(reg, goalObj), "defineGoal")
                 EXCEPT !.errors = @ \cup GoalErrors(reg, goalObj)]
  /\ UNCHANGED <<session, platReq, outputMgr, pc, cpu, resp, loop, pending, hist,
                 turns, codec, parse>>

AddInputTypes ==
  /\ reg.calls < MaxCalls
  /\ \E keyTypes \in InputTypes :
       reg' = Called(addInputTypes(reg, keyTypes), "addInputTypes")
  /\ UNCHANGED <<session, platReq, outputMgr, pc, cpu, resp, loop, pending, hist,
                 turns, codec, parse>>

\* registerIntents, called once; nothing in it throws
RegisterIntents ==
  /\ reg.calls < MaxCalls
  /\ reg.outcome = "none"
  /\ LET r == registerIntents(reg)
     IN reg' = [Called(r, "registerIntents") EXCEPT
                  !.outcome = "completed",
                  !.atReg = [keyTypes |-> r.keyTypes,
                             registeredGoals |-> r.registeredGoals,
                             chooses |-> [n \in 1..Len(r.regCalls) |->
                                            intentDefArr(r, r.regCalls[n])],
                             errors |-> r.errors]]
  /\ UNCHANGED <<session, platReq, outputMgr, pc, cpu, resp, loop, pending, hist,
                 turns, codec, parse>>

NextReg == RespondTo \/ DefineGoal \/ AddInputTypes \/ RegisterIntents

SpecReg == InitReg /\ [][NextReg]_vars

\* ------------------------------------------------------------------------
\* ScriptParser (conversationEngine.js 182-266) on the utterances of one
\* intent, as _registerIntentDef applies it
\* ------------------------------------------------------------------------

\* utterances one intent definition expects (bound)
MaxUtterances == 2

Digits == {"0", "1", "2", "3", "4", "5", "6", "7", "8", "9"}

\* the character class of paramsRE
ParamChars ==
  LowerChars \cup UpperChars \cup Digits
    \cup {"_", ",", "+", "-", "*", "/", " ", "\\", ".", "(", ")", "'"}

LowerAlphabet ==
  <<"a", "b", "c", "d", "e", "f", "g", "h", "i", "j", "k", "l", "m",
    "n", "o", "p", "q", "r", "s", "t", "u", "v", "w", "x", "y", "z">>

\* String.prototype.toLowerCase
toLowerCase(str) ==
  [p \in 1..Len(str) |->
     IF str[p] \in UpperChars
     THEN LowerAlphabet[CHOOSE n \in 1..Len(Alphabet) : Alphabet[n] = str[p]]
     ELSE str[p]]

\* String.prototype.indexOf, from 1; 0 when str does not hold sub
indexOf(str, sub) ==
  LET at == {p \in 1..(Len(str) + 1) : MatchAt(str, p, sub)}
  IN  IF at = {} THEN 0 ELSE Min(at)

RECURSIVE trimLeft(_)
trimLeft(str) ==
  IF Len(str) > 0 /\ str[1] = " " THEN trimLeft(Tail(str)) ELSE str

RECURSIVE trimRight(_)
trimRight(str) ==
  IF Len(str) > 0 /\ str[Len(str)] = " "
  THEN trimRight(SubSeq(str, 1, Len(str) - 1)) ELSE str

\* String.prototype.trim
trim(str) == trimRight(trimLeft(str))

RECURSIVE RunEnd(_, _, _)
\* where the run of characters of class that starts at p ends: the first
\* position from p on that holds another character, or none
RunEnd(str, p, class) ==
  IF p > Len(str) \/ str[p] \notin class THEN p ELSE RunEnd(str, p + 1, class)

\* _interpolate: foundStr at foundStrPos replaced by replaceStr
interpolate(originalStr, foundStr, foundStrPos, replaceStr) ==
  SubSeq(originalStr, 1, foundStrPos - 1) \o replaceStr
    \o SubSeq(originalStr, foundStrPos + Len(foundStr), Len(originalStr))

DigitNames ==
  <<<<"z","e","r","o">>, <<"o","n","e">>, <<"t","w","o">>, <<"t","h","r","e","e">>,
    <<"f","o","u","r">>, <<"f","i","v","e">>, <<"s","i","x">>,
    <<"s","e","v","e","n">>, <<"e","i","g","h","t">>, <<"n","i","n","e">>>>

DigitSeq == <<"0", "1", "2", "3", "4", "5", "6", "7", "8", "9">>

RECURSIVE getNumAsStr(_)
\* utils.getNumAsStr: the number in spoken English; a number of one digit is
\* its name, and a longer one is read here digit by digit
getNumAsStr(num) ==
  LET name(d) == DigitNames[CHOOSE n \in 1..Len(DigitSeq) : DigitSeq[n] = d]
  IN  IF Len(num) = 0 THEN <<>>
      ELSE IF Len(num) = 1 THEN name(num[1])
      ELSE name(num[1]) \o <<" ">> \o getNumAsStr(Tail(num))

RECURSIVE interpolateNumbers(_)
\* _interpolateParamsFromStore with /(\d+)/ and getNumAsStr
interpolateNumbers(str) ==
  LET at == {p \in 1..Len(str) : str[p] \in Digits}
  IN  IF at = {} THEN str
      ELSE LET pos == Min(at)
               num == SubSeq(str, pos, RunEnd(str, pos, Digits) - 1)
           IN  interpolateNumbers(interpolate(str, num, pos, getNumAsStr(num)))

\* ScriptParser.forPunctuation
forPunctuation(userSpeech) ==
  [n \in 1..Len(userSpeech) |->
     interpolateNumbers(SelectSeq(userSpeech[n], LAMBDA c : c \notin {",", "?"}))]

\* a value of keyTypes: a type name, or an object with a type and with
\* sampleValues (a literal) or values (a custom slot)
TypeName(t) == [type |-> t, object |-> FALSE, sampleValues |-> <<>>, values |-> {}]

LiteralType(samples) ==
  [type |-> "AMAZON.LITERAL", object |-> TRUE, sampleValues |-> samples, values |-> {}]

CustomType(t, vals) ==
  [type |-> t, object |-> TRUE, sampleValues |-> <<>>, values |-> vals]

\* keyTypes[inStr].sampleValues is there
HasSampleValues(keyTypes, inStr) ==
  inStr \in DOMAIN keyTypes /\ keyTypes[inStr].object /\ keyTypes[inStr].values = {}

\* keyTypes with keyTypes[name] = val
SetKeyType(keyTypes, name, val) ==
  [k \in DOMAIN keyTypes \cup {name} |-> IF k = name THEN val ELSE keyTypes[k]]

\* where paramsRE matches in str
ParamMatches(str) ==
  {p \in 1..Len(str) :
     /\ MatchAt(str, p, <<"[", "[">>)
     /\ MatchAt(str, RunEnd(str, p + 2, ParamChars), <<"]", "]">>)}

\* literalSampleValuesStore.get of forSlots: the text that replaces [[inStr]]
\* and keyTypes as the call leaves it
literalSampleValuesStore(keyTypes, inStr) ==
  IF HasSampleValues(keyTypes, inStr)
  THEN LET trimmed == [n \in 1..Len(keyTypes[inStr].sampleValues) |->
                         trim(keyTypes[inStr].sampleValues[n])]
       IN  [text |-> <<"{">> \o Join(trimmed, "|") \o <<"|">> \o inStr \o <<"}">>,
            keyTypes |-> [keyTypes EXCEPT ![inStr].sampleValues = trimmed]]
  ELSE [text |-> <<"{", "-", "|">> \o inStr \o <<"}">>,
        keyTypes |-> IF inStr \notin DOMAIN keyTypes
                     THEN SetKeyType(keyTypes, inStr, TypeName("AMAZON.LITERAL"))
                     ELSE keyTypes]

RECURSIVE forSlotsItem(_, _)
\* _interpolateParamsFromStore with paramsRE and literalSampleValuesStore
forSlotsItem(keyTypes, str) ==
  LET at == ParamMatches(str)
  IN  IF at = {} THEN [str |-> str, keyTypes |-> keyTypes]
      ELSE LET pos == Min(at)
               close == RunEnd(str, pos + 2, ParamChars)
               got == literalSampleValuesStore(keyTypes, SubSeq(str, pos + 2, close - 1))
           IN  forSlotsItem(got.keyTypes,
                            interpolate(str, SubSeq(str, pos, close + 1), pos, got.text))

RECURSIVE forSlotsFrom(_, _, _)
\* ScriptParser.forSlots from the utterance ndx on: the utterances and keyTypes
forSlotsFrom(keyTypes, userSpeech, ndx) ==
  IF ndx > Len(userSpeech) THEN [userSpeech |-> userSpeech, keyTypes |-> keyTypes]
  ELSE LET got == forSlotsItem(keyTypes, userSpeech[ndx])
       IN  forSlotsFrom(got.keyTypes, [userSpeech EXCEPT ![ndx] = got.str], ndx + 1)

forSlots(keyTypes, userSpeech) == forSlotsFrom(keyTypes, userSpeech, 1)

\* the utterances one phrase of an equivalent set adds for userSpeechItem
PhraseAdds(userSpeechItem, equivSets, phraseNdx) ==
  LET phrase == equivSets[phraseNdx]
      phrasePos == indexOf(toLowerCase(userSpeechItem), toLowerCase(phrase))
      others == SelectSeq([n \in 1..Len(equivSets) |-> n], LAMBDA n : n # phraseNdx)
  IN  IF phrasePos = 0 THEN <<>>
      ELSE [n \in 1..Len(others) |->
              interpolate(userSpeechItem, phrase, phrasePos, equivSets[others[n]])]

RECURSIVE SetAdds(_, _, _)
SetAdds(userSpeechItem, equivSets, phraseNdx) ==
  IF phraseNdx > Len(equivSets) THEN <<>>
  ELSE PhraseAdds(userSpeechItem, equivSets, phraseNdx)
         \o SetAdds(userSpeechItem, equivSets, phraseNdx + 1)

RECURSIVE ItemAdds(_, _, _)
ItemAdds(userSpeechItem, phraseEquivalents, setNdx) ==
  IF setNdx > Len(phraseEquivalents) THEN <<>>
  ELSE SetAdds(userSpeechItem, phraseEquivalents[setNdx], 1)
         \o ItemAdds(userSpeechItem, phraseEquivalents, setNdx + 1)

RECURSIVE forPhraseEquivalentsFrom(_, _, _, _)
forPhraseEquivalentsFrom(phraseEquivalents, userSpeech, ndx, max) ==
  IF ndx > max THEN userSpeech
  ELSE forPhraseEquivalentsFrom(
         phraseEquivalents,
         userSpeech \o ItemAdds(userSpeech[ndx], phraseEquivalents, 1),
         ndx + 1, max)

\* ScriptParser.forPhraseEquivalents: only the utterances it is given are
\* expanded, not the ones it adds
forPhraseEquivalents(phraseEquivalents, userSpeech) ==
  forPhraseEquivalentsFrom(phraseEquivalents, userSpeech, 1, Len(userSpeech))

\* the names /\|[a-zA-Z]*}/g finds in speechStr, without the empty one
ExtractedVars(speechStr) ==
  {SubSeq(speechStr, p + 1, RunEnd(speechStr, p + 1, WordChars) - 1) :
     p \in {q \in 1..Len(speechStr) :
              /\ speechStr[q] = "|"
              /\ MatchAt(speechStr, RunEnd(speechStr, q + 1, WordChars), <<"}">>)
              /\ RunEnd(speechStr, q + 1, WordChars) > q + 1}}

\* ScriptParser.extractParamsFromSpeech: the slot map, name -> type
extractParamsFromSpeech(keyTypes, userSpeech) ==
  LET found == UNION {ExtractedVars(userSpeech[n]) : n \in 1..Len(userSpeech)}
  IN  [ev \in found \cap DOMAIN keyTypes |-> keyTypes[ev].type]

\* the utterances of the script: a slot, an optional group whose last
\* alternative reads like a slot name, punctuation and capitals, a number,
\* a slot the script declares no type for
UtterancePool ==
  {<<"a", " ", "[", "[", "n", "]", "]">>,
   <<"a", " ", "{", "b", "|", "n", "}">>,
   <<"H", "i", ",", " ", "a", "?">>,
   <<"a", " ", "2">>,
   <<"[", "[", "m", "]", "]", " ", "a">>}

UtteranceLists == UNION {[1..n -> UtterancePool] : n \in 1..MaxUtterances}

\* convo.keyTypes as addInputTypes left it
KeyTypeTables ==
  {<<>>}
  \cup {[k \in {<<"n">>} |-> t] :
          t \in {TypeName("AMAZON.NUMBER"), CustomType("nType", {"x", "y"}),
                 LiteralType(<<<<" ", "x">>, <<"y">>>>)}}

\* convo.phraseEquivalents as addPhraseEquivalents left it (in lower case)
PhraseEquivalentTables == {<<>>, <<<<<<"a">>, <<"h", "i">>>>>>}

InitParser ==
  /\ InitEngine([u \in Users |-> 0])
  /\ codec = NoCodec
  /\ reg = NoReg
  /\ \E expecting \in UtteranceLists, keyTypes \in KeyTypeTables,
        phraseEquivalents \in PhraseEquivalentTables :
       parse = [NoParse EXCEPT !.pos = "in", !.expecting = expecting,
                               !.userSpeech = expecting, !.keyTypes = keyTypes,
                               !.phraseEquivalents = phraseEquivalents]

ForPunctuation ==
  /\ parse.pos = "in"
  /\ parse' = [parse EXCEPT !.pos = "punctuation",
                            !.userSpeech = forPunctuation(parse.userSpeech)]
  /\ UNCHANGED <<session, platReq, outputMgr, pc, cpu, resp, loop, pending, hist,
                 turns, codec, reg>>

ForSlots ==
  /\ parse.pos = "punctuation"
  /\ LET got == forSlots(parse.keyTypes, parse.userSpeech)
     IN  parse' = [parse EXCEPT !.pos = "slots", !.userSpeech = got.userSpeech,
                                !.keyTypes = got.keyTypes]
  /\ UNCHANGED <<session, platReq, outputMgr, pc, cpu, resp, loop, pending, hist,
                 turns, codec, reg>>

ForPhraseEquivalents ==
  /\ parse.pos = "slots"
  /\ parse' = [parse EXCEPT
                 !.pos = "equivalents",
                 !.userSpeech = forPhraseEquivalents(parse.phraseEquivalents,
                                                     parse.userSpeech)]
  /\ UNCHANGED <<session, platReq, outputMgr, pc, cpu, resp, loop, pending, hist,
                 turns, codec, reg>>

ExtractParams ==
  /\ parse.pos = "equivalents"
  /\ parse' = [parse EXCEPT
                 !.pos = "extracted",
                 !.expectedParams = extractParamsFromSpeech(parse.keyTypes,
                                                            parse.userSpeech)]
  /\ UNCHANGED <<session, platReq, outputMgr, pc, cpu, resp, loop, pending, hist,
                 turns, codec, reg>>

NextParser == ForPunctuation \/ ForSlots \/ ForPhraseEquivalents \/ ExtractParams

SpecParser == InitParser /\ [][NextParser]_vars

\* ------------------------------------------------------------------------
\* Properties
\* ------------------------------------------------------------------------

Frames(u) == getGoalStates(session[u])

RemoveAt(seq, i) == SubSeq(seq, 1, i - 1) \o SubSeq(seq, i + 1, Len(seq))

Count(frames, key) == Cardinality({n \in 1..Len(frames) : frames[n].key = key})

Frame(key) == [key |-> key, flags |-> <<>>]

QueriedFrame(key) == [key |-> key, flags |-> <<[name |-> queried, val |-> TRUE]>>]

\* C1: when the goal loop has called a goal's resolver for the frame at the
\* cursor, and the resolver returned true or undefined and added no goal, the
\* stack afterwards is the stack before with exactly that frame deleted.
C1_ResolverSuccessRemovesOwnFrame ==
  [][\A u \in Users :
       (/\ pc[u] = "goalPending"
        /\ pc'[u] = "loop"
        /\ pending[u].eff.ret \in {"true", "undefined"}
        /\ pending[u].eff.push = NoGoal)
       => getGoalStates(session'[u])
            = RemoveAt(Frames(u), Len(Frames(u)) - loop[u].goalNdx)]_vars

C3_AskedBelowTwo ==
  \A u \in Users : pc[u] = "flush" => outputMgr.asked < 2 * AskWeight

\* C3 (amended): when the goal loop of a turn has ended and no single call
\* of an author callback added more than 1 to asked, asked is below 2.
C3_AskedBelowTwoIfNoOverAsk ==
  \A u \in Users :
    (pc[u] = "flush" /\ ~hist[u].overAsk) => outputMgr.asked < 2 * AskWeight

C3_Witness ==
  \E u \in Users :
    pc[u] = "flush" /\ ~hist[u].overAsk /\ outputMgr.asked > AskWeight

\* C4: the output flushed for a turn holds only fragments that the turn's own
\* callbacks and goals produced (and the engine's separators).
C4_OwnFragmentsOnly ==
  \A u \in Users :
    \A n \in 1..Len(platReq[u].said) :
      \A m \in 1..Len(platReq[u].said[n]) :
        platReq[u].said[n][m].by \in {u, "engine"}

\* C5: intent dispatch never runs the callback of a def whose goal is set in
\* a turn where no frame of the stack has that goal's key.
C5_ScopedIntentNeedsGoal ==
  \A u \in Users :
    hist[u].intent \in DOMAIN Intents
    => LET def == Intents[hist[u].intent].defs[hist[u].selNdx]
       IN  def.goal # NoGoal
           => \E n \in 1..Len(hist[u].frames) : hist[u].frames[n].key = def.goal

\* the depths (0 = top) of the frames whose key is the goal of some def
MatchingDepths(frames, defs) ==
  {d \in 0..(Len(frames) - 1) :
     \E n \in 1..Len(defs) :
       defs[n].goal # NoGoal /\ defs[n].goal = frames[Len(frames) - d].key}

C7_FailureIsApologised ==
  \A u \in Users : pc[u] = "errored" => platReq[u].said # <<>>

\* C8: a turn whose loop starts on the stack [checkInDetails] with the slot
\* unset and nothing asked ends with the stack [checkInDetails,
\* bloodSugar:queried]; and the turn of the bloodSugar intent on a stack that
\* holds checkInDetails calls checkInDetails' resolver again.
C8_DependencyChaining ==
  \A u \in Users :
    /\ (/\ pc[u] = "done"
        /\ hist[u].loopStart = <<Frame(checkInDetails)>>
        /\ hist[u].startAsked = 0
        /\ session[u].bloodSugar = undefined)
       => Frames(u) = <<Frame(checkInDetails), QueriedFrame(bloodSugar)>>
    /\ (/\ pc[u] = "done"
        /\ hist[u].intent = "BloodSugar"
        /\ Count(hist[u].frames, checkInDetails) > 0)
       => hist[u].calls >= 2

KeyPositions(L, k) == {n \in 1..Len(L) : L[n].key = k}

\* every flag of every frame of L is true
AllTrue(L) ==
  \A n \in 1..Len(L) : \A m \in 1..Len(L[n].flags) : L[n].flags[m].val

\* C10: a frame list whose flags are all true is given back by decoding its
\* encoding, the empty list included.
C10_ShortJSONRoundTrip ==
  (codec.pos = "decoded" /\ AllTrue(codec.L)) => codec.back = codec.L

C10_Witness ==
  /\ codec.pos = "decoded"
  /\ Len(codec.L) = 2
  /\ Len(codec.L[1].flags) = 2
  /\ AllTrue(codec.L)
  /\ codec.back = codec.L

\* C11: when the encoded frame list holds key k, clearInSJN(k) gives the
\* encoding of the list without its first frame of key k: that frame goes
\* with all its flags, every other frame stays, with its flags, in order.
C11_RemovalIsLeftmost ==
  (codec.pos = "removed" /\ AllTrue(codec.L) /\ KeyPositions(codec.L, codec.key) # {})
  => codec.out
       = arrToSJN(arrObjToArr(RemoveAt(codec.L, Min(KeyPositions(codec.L, codec.key)))))

\* C12: every turn the engine completes, a turn ended by a failure included,
\* has handed a spoken output to the platform request.
C12_NoTurnIsSilent ==
  \A u \in Users : pc[u] \in {"done", "errored"} => platReq[u].said # <<>>

\* C13: once the goal loop has reached a frame whose goal is not defined, no
\* further callback is called, the goal stack stays as it was, the loop test
\* is false, and the turn ends normally with the output queued until then
\* handed to the platform request.
C13_UnknownGoalStopsLoop ==
  \A u \in Users :
    hist[u].unknown.hit
    => /\ pc[u] \in {"loop", "flush", "done"}
       /\ hist[u].calls = hist[u].unknown.calls
       /\ session[u].convoGoalState = hist[u].unknown.goals
       /\ pc[u] = "loop" => ~MoreToDo(u)
       /\ pc[u] \in {"loop", "flush"}
            => outBufferOf(outputMgr, <<>>) = hist[u].unknown.out
       /\ pc[u] = "done"
            => platReq[u].said = IF hist[u].unknown.out = <<>> THEN <<>>
                                 ELSE <<hist[u].unknown.out>>

C13_Witness ==
  \E u \in Users :
    /\ pc[u] = "done"
    /\ hist[u].unknown.hit
    /\ outputMgr.spokenRate = "null"
    /\ platReq[u].said # <<>>
    /\ \E n \in 1..Len(Frames(u)) : Frames(u)[n].key = goalU

\* C14: while a callback called in a turn has not settled and never will,
\* the session is what it was before the turn and nothing has been handed to
\* the platform request (neither say nor shouldEndSession was called).
C14_NeverSettlingKeepsSession ==
  \A u \in Users :
    (pc[u] \in {"intentPending", "goalPending"} /\ pending[u].eff.mode = "never")
    => /\ session[u] = hist[u].pre
       /\ platReq[u].said = <<>>
       /\ platReq[u].endSession = "unset"

IsContent(f) == f.by # "engine"

IsSay(p) == p.kind = "say"

IsAsk(p) == p.kind = "ask"

FragsOf(ps) == [n \in 1..Len(ps) |-> ps[n].frag]

\* the fragments of the output handed over for u's turn, separators left out
Spoken(u) ==
  IF platReq[u].said = <<>> THEN <<>> ELSE SelectSeq(platReq[u].said[1], IsContent)

\* C15 (as claimed): the fragments of a turn's output are in the order in
\* which the callbacks and goals of the turn produced them.
C15_OutputInProductionOrder ==
  \A u \in Users : pc[u] = "done" => Spoken(u) = FragsOf(hist[u].produced)

\* C15 (amended): the output of a turn holds the say fragments in the order
\* they were produced, then the prompt and ask fragments in the order they
\* were produced.
C15_OutputSaysThenAsksInOrder ==
  \A u \in Users :
    pc[u] = "done"
    => Spoken(u) = FragsOf(SelectSeq(hist[u].produced, IsSay))
                     \o FragsOf(SelectSeq(hist[u].produced, IsAsk))

C15_Witness ==
  \E u \in Users :
    /\ pc[u] = "done"
    /\ \E i, j \in 1..Len(hist[u].produced) :
         /\ i < j
         /\ hist[u].produced[i].kind = "ask"
         /\ hist[u].produced[j].kind = "say"
    /\ Len(Spoken(u)) = Len(hist[u].produced)

\* the stack at the start of the loop holds only prompt goals not yet queried,
\* and nothing was asked before the loop
C16_PromptsOnly(u) ==
  /\ hist[u].startAsked = 0
  /\ Len(hist[u].loopStart) >= 1
  /\ \A n \in 1..Len(hist[u].loopStart) :
       /\ hist[u].loopStart[n].key \in {bloodSugar, goalC}
       /\ hist[u].loopStart[n].flags = <<>>

\* the number of prompts one turn can queue from a stack of n prompt goals
C16_Queued(n) == IF n >= 3 THEN 3 ELSE n

\* C16: with only un-queried prompt goals on the stack and nothing asked by
\* the intent resolver, the loop queues the prompts from the top down, one an
\* iteration, goes on after the first (0.34) and the second (0.68) and halts
\* right after the third (1.02); exactly the frames whose prompt was queued
\* are marked queried, and no fourth prompt is queued
C16_PromptsCollapse ==
  \A u \in Users :
    (pc[u] = "flush" /\ C16_PromptsOnly(u))
    => LET start == hist[u].loopStart
           n == Len(start)
           k == C16_Queued(n)
       IN /\ outputMgr.asked = k * PromptWeight
          /\ outputMgr.askQueue =
               [j \in 1..k |-> Frag(registeredGoals[start[n + 1 - j].key].prompt, u)]
          /\ Frames(u) =
               [d \in 1..n |-> IF d > n - k THEN SetFlag(start[d], queried)
                               ELSE start[d]]
          /\ hist[u].iters = IF n >= 3 THEN 3 ELSE n + 1

C16_Witness ==
  \E u \in Users :
    /\ pc[u] = "flush"
    /\ C16_PromptsOnly(u)
    /\ Len(hist[u].loopStart) = 4
    /\ outputMgr.asked = 3 * PromptWeight
    /\ Len(outputMgr.askQueue) = 3
    /\ ~IsQueried(Frames(u)[1])

\* C17: registration errors are fatal: when a goal key was defined twice, or a
\* goal was defined with both resolve and prompt/ask, registerIntents does
\* not complete
C17_RegistrationErrorsAreFatal ==
  reg.atReg.errors # {} => reg.outcome # "completed"

\* the tables are as registerIntents left them
C18_TablesAsRegistered ==
  /\ reg.keyTypes = reg.atReg.keyTypes
  /\ reg.registeredGoals = reg.atReg.registeredGoals
  /\ \A n \in 1..Len(reg.regCalls) :
       intentDefArr(reg, reg.regCalls[n]) = reg.atReg.chooses[n]

\* C18: once registerIntents has returned, no call of addInputTypes,
\* respondTo or defineGoal changes the slot types, the goal table or the
\* definitions among which a registered intent chooses
C18_TablesFrozenAfterRegisterIntents ==
  reg.outcome = "completed" => C18_TablesAsRegistered

\* the definitions that declared an utterance
DeclaredBy(userSpeechItem) ==
  {id \in 1..Len(reg.defs) :
     \E n \in 1..Len(reg.defs[id].expecting) :
       reg.defs[id].expecting[n] = userSpeechItem}

\* the utterances of a definition that no other definition uses
OwnSpeech(id) == {u \in Utterances : DeclaredBy(u) = {id}}

\* the platform intents the compile step is to register
C19_Expected ==
  {[utterances |-> OwnSpeech(id), defs |-> {id}] :
     id \in {d \in 1..Len(reg.defs) : OwnSpeech(d) # {}}}
  \cup {[utterances |-> {u}, defs |-> DeclaredBy(u)] :
          u \in {v \in Utterances : Cardinality(DeclaredBy(v)) > 1}}

SeqRange(s) == {s[n] : n \in 1..Len(s)}

\* a registered intent as its utterances and the definitions it is bound to
C19_Bound(handler) ==
  [utterances |-> SeqRange(handler.utterances),
   defs |-> SeqRange(intentDefArr(reg, handler))]

\* C19: registerIntents registers exactly one platform intent for each
\* definition that owns an utterance no other definition uses, with all such
\* utterances of the definition and bound to it alone, and exactly one for
\* each utterance shared by several definitions, bound to all of them; no
\* other platform intent is registered
C19_CompileStepGrouping ==
  reg.last = "registerIntents"
  => /\ {C19_Bound(h) : h \in intentHandlers(reg.regCalls)} = C19_Expected
     /\ Cardinality(intentHandlers(reg.regCalls)) = Cardinality(C19_Expected)

\* the same, of the calls of platforms.regIntent instead of the platform's table
C19_RegIntentCalls ==
  reg.last = "registerIntents"
  => /\ {C19_Bound(h) : h \in SeqRange(reg.regCalls)} = C19_Expected
     /\ Len(reg.regCalls) = Cardinality(C19_Expected)

\* the same, when no definition has a name
C19_Unnamed ==
  (reg.last = "registerIntents"
   /\ \A id \in 1..Len(reg.defs) : reg.defs[id].name = NoName)
  => /\ {C19_Bound(h) : h \in intentHandlers(reg.regCalls)} = C19_Expected
     /\ Cardinality(intentHandlers(reg.regCalls)) = Cardinality(C19_Expected)

\* C20: after addGoal(k) the top frame has key k and is not queried, every
\* frame that was at depth d is at depth d + 1 with the same key and flags,
\* and a key already on the stack is added as a further frame
C20_GoalStackIsLIFO ==
  codec.pos = "added"
  => LET before == CodecSession(codec.sjn)
         after == CodecSession(codec.out)
     IN /\ mostRecentGoalStates(after, 0) = Frame(codec.key)
        /\ ~IsQueried(mostRecentGoalStates(after, 0))
        /\ Len(getGoalStates(after)) = Len(getGoalStates(before)) + 1
        /\ \A d \in 0..(Len(getGoalStates(before)) - 1) :
             mostRecentGoalStates(after, d + 1) = mostRecentGoalStates(before, d)

C20_Witness ==
  /\ codec.pos = "added"
  /\ Len(codec.L) = 2
  /\ codec.L[1].key = codec.key
  /\ codec.L[2].key # codec.key
  /\ IsQueried(codec.L[1])
  /\ Len(getGoalStates(CodecSession(codec.out))) = 3
  /\ mostRecentGoalStates(CodecSession(codec.out), 2) = codec.L[1]

\* C21: the turn of the Hello intent (one goal-less def whose resolver only
\* says 'Hi') on an empty stack, with no spokenRate set, hands exactly 'Hi'
\* to the platform request, calls shouldEndSession(false) and leaves the
\* stack empty
C21_SingleTurnIntent ==
  \A u \in Users :
    (/\ pc[u] = "done"
     /\ hist[u].intent = "Hello"
     /\ hist[u].frames = <<>>
     /\ outputMgr.spokenRate = "null")
    => /\ platReq[u].said = <<<<Frag("Hi", u)>>>>
       /\ platReq[u].endSession = "false"
       /\ Frames(u) = <<>>

\* the same turn with a spokenRate set: 'Hi' inside the prosody element
C21_SingleTurnIntentWithRate ==
  \A u \in Users :
    (/\ pc[u] = "done"
     /\ hist[u].intent = "Hello"
     /\ hist[u].frames = <<>>
     /\ outputMgr.spokenRate # "null")
    => /\ platReq[u].said =
            <<<<Sep("<prosody rate>"), Frag("Hi", u), Sep("</prosody>")>>>>
       /\ platReq[u].endSession = "false"
       /\ Frames(u) = <<>>

C21_Witness ==
  \E u \in Users :
    /\ pc[u] = "done"
    /\ hist[u].intent = "Hello"
    /\ hist[u].frames = <<>>
    /\ outputMgr.spokenRate = "null"
    /\ platReq[u].said = <<<<Frag("Hi", u)>>>>
    /\ hist[u].iters = 1

\* C22: on a launch with an empty goal stack (no spokenRate set) the launch
\* handler says one of the launchPhrases, the goal loop stops at its first
\* iteration without calling or querying any goal, the output of the turn is
\* that phrase exactly, and the stack is still empty
C22_Launch ==
  \A u \in Users :
    (/\ pc[u] \in {"flush", "done"}
     /\ hist[u].intent = "launch"
     /\ hist[u].frames = <<>>
     /\ outputMgr.spokenRate = "null")
    => /\ hist[u].calls = 1
       /\ hist[u].iters = 1
       /\ Len(hist[u].produced) = 1
       /\ hist[u].produced[1].kind = "say"
       /\ hist[u].produced[1].frag.text \in launchPhrases
       /\ Frames(u) = <<>>
       /\ pc[u] = "done"
          => /\ platReq[u].said = <<<<hist[u].produced[1].frag>>>>
             /\ platReq[u].endSession = "false"

C22_Witness ==
  \E u \in Users :
    /\ pc[u] = "done"
    /\ hist[u].intent = "launch"
    /\ hist[u].frames = <<>>
    /\ outputMgr.spokenRate = "null"
    /\ platReq[u].said = <<<<Frag("Hey. Need me?", u)>>>>
    /\ turns[u] < MaxTurns - 1

\* the utterance holds the reference [[name]]
HasSlotRef(utterance, name) ==
  \E p \in 1..Len(utterance) :
    MatchAt(utterance, p, <<"[", "[">> \o name \o <<"]", "]">>)

\* C23: every slot name of the map extractParamsFromSpeech computes for an
\* intent occurs as [[name]] in one of the author's utterances of the intent
C23_SlotExtractionSound ==
  parse.pos = "extracted"
  => \A name \in DOMAIN parse.expectedParams :
       \E n \in 1..Len(parse.expecting) : HasSlotRef(parse.expecting[n], name)

\* the author's utterances hold no optional group
C23_NoGroups ==
  \A n \in 1..Len(parse.expecting) :
    \A p \in 1..Len(parse.expecting[n]) : parse.expecting[n][p] # "{"

\* the same for utterances without optional groups
C23_SoundWithoutGroups ==
  (parse.pos = "extracted" /\ C23_NoGroups)
  => \A name \in DOMAIN parse.expectedParams :
       \E n \in 1..Len(parse.expecting) : HasSlotRef(parse.expecting[n], name)

\* C24: when the success of a goal's resolver removes a frame,
\* goalStateChanged is set, so that the next iteration starts again at the
\* top of the stack and skips no frame that is left
C24_RemovalRestartsCursor ==
  [][\A u \in Users :
       (/\ pc[u] = "goalPending"
        /\ pc'[u] = "loop"
        /\ session'[u].convoGoalState # session[u].convoGoalState)
       => resp'[u].goalStateChanged]_vars

\* the same seen from the end of the loop: in a turn that started on the
\* stack [goalC, goalR], both added by the intent's callback, and in which
\* R's resolver removed its frame, the prompt of goalC was queued
C24_FrameBelowNotSkipped ==
  \A u \in Users :
    (/\ pc[u] = "flush"
     /\ hist[u].loopStart = <<Frame(goalC), Frame(goalR)>>
     /\ Frames(u) # <<>>
     /\ Frames(u)[Len(Frames(u))].key = goalC)
    => IsQueried(Frames(u)[Len(Frames(u))])

\* C25: when the loop has halted with asked < 1 and has met no goal that is
\* not registered, no frame left on the stack is a query goal (one with a
\* prompt or an ask and no resolver) that was not queried
C25_LoopRunsToFixpoint ==
  \A u \in Users :
    (/\ pc[u] = "flush"
     /\ outputMgr.asked < AskWeight
     /\ ~hist[u].unknown.hit)
    => \A n \in 1..Len(Frames(u)) :
         LET key == Frames(u)[n].key
         IN  (/\ key \in DOMAIN registeredGoals
              /\ registeredGoals[key].resolve = ""
              /\ goalDefQueryable(registeredGoals[key]))
             => IsQueried(Frames(u)[n])

\* the turns in which no resolver called from the loop returned success
\* (the stack the loop halts on holds every frame it started on) do reach
\* the fixpoint
C25_FixpointIfNothingRemoved ==
  \A u \in Users :
    (/\ pc[u] = "flush"
     /\ outputMgr.asked < AskWeight
     /\ ~hist[u].unknown.hit
     /\ ~hist[u].loopPush
     /\ Len(Frames(u)) = hist[u].startLen)
    => \A n \in 1..Len(Frames(u)) :
         LET key == Frames(u)[n].key
         IN  (/\ key \in DOMAIN registeredGoals
              /\ registeredGoals[key].resolve = ""
              /\ goalDefQueryable(registeredGoals[key]))
             => IsQueried(Frames(u)[n])

\* C26: once asked has reached 1 no iteration of the goal loop starts: while
\* a turn is at the loop test with asked >= 1, no resolver is called, nothing
\* is queued and no frame is marked queried (the session, the queues and the
\* counts of iterations and calls stay as they are), also when it was the
\* intent's callback that asked before the loop; and asked is never negative
C26_LoopHaltsOnceAsked ==
  /\ [](outputMgr.asked >= 0)
  /\ [][\A u \in Users :
          (pc[u] = "loop" /\ outputMgr.asked >= AskWeight)
          => /\ pc'[u] \in {"loop", "flush"}
             /\ session'[u] = session[u]
             /\ outputMgr' = outputMgr
             /\ hist'[u] = hist[u]
             /\ pending'[u] = pending[u]]_vars

\* the intent's callback asked, so that the loop ran no iteration although
\* the goal on top of the stack has a resolver
C26_Witness ==
  \E u \in Users :
    /\ pc[u] = "flush"
    /\ outputMgr.asked >= AskWeight
    /\ hist[u].iters = 0
    /\ hist[u].calls = 1
    /\ Frames(u) # <<>>
    /\ Frames(u)[Len(Frames(u))].key = goalR

\* the loop stopped by a goal's ask: the frame below it is still un-queried
C26_WitnessInLoop ==
  \E u \in Users :
    /\ pc[u] = "flush"
    /\ outputMgr.asked = AskWeight
    /\ hist[u].iters > 0
    /\ Len(Frames(u)) >= 2
    /\ Frames(u)[Len(Frames(u))] = QueriedFrame(goalQ)
    /\ Frames(u)[Len(Frames(u)) - 1] = Frame(goalC)

\* the frame's item in the session's goal string carries ':queried'
HasQueriedFlag(frame) ==
  \E m \in 1..Len(frame.flags) :
    frame.flags[m] = [name |-> queried, val |-> TRUE]

QueriedCount(frames, key) ==
  Cardinality({n \in 1..Len(frames) : frames[n].key = key /\ HasQueriedFlag(frames[n])})

\* the turn marked a frame of the goal key queried
MarkedQueried(u, key) ==
  QueriedCount(Frames(u), key) > QueriedCount(getGoalStates(hist[u].pre), key)

\* the goal's prompt (or ask) is part of the output handed over for u's turn
PromptSpoken(u, key) ==
  LET goalDef == registeredGoals[key]
      frag == Frag(IF goalDef.prompt # "" THEN goalDef.prompt ELSE goalDef.ask, u)
  IN  \E n \in 1..Len(Spoken(u)) : Spoken(u)[n] = frag

\* the turn has ended, with a response or with an error, or waits for a
\* callback that never settles
TurnIsOver(u) ==
  \/ pc[u] \in {"done", "errored"}
  \/ pc[u] \in {"intentPending", "goalPending"} /\ pending[u].eff.mode = "never"

\* C27: a frame is marked queried only when its prompt or ask was spoken: a
\* turn that is over and has marked a frame queried has handed the prompt or
\* ask of that frame's goal, a goal without resolver, to the platform
\* request; a turn that failed or never flushes has marked none
C27_QueriedOnlyIfSpoken ==
  \A u \in Users :
    TurnIsOver(u)
    => \A key \in DOMAIN registeredGoals :
         MarkedQueried(u, key)
         => /\ registeredGoals[key].resolve = ""
            /\ goalDefQueryable(registeredGoals[key])
            /\ PromptSpoken(u, key)

\* the turns that reach their flush do hand over the prompt of every frame
\* they marked
C27_SpokenIfFlushed ==
  \A u \in Users :
    pc[u] = "done"
    => \A key \in DOMAIN registeredGoals :
         MarkedQueried(u, key)
         => /\ registeredGoals[key].resolve = ""
            /\ goalDefQueryable(registeredGoals[key])
            /\ PromptSpoken(u, key)

\* the frame the next iteration of u's loop looks at
CursorFrame(u) ==
  mostRecentGoalStates(session[u],
                       NextGoalNdx(resp[u].goalStateChanged, loop[u].goalNdx))

\* the frame is one of a registered goal with a prompt or an ask and no
\* resolver, and carries the flag queried
IsQueriedQueryFrame(frame) ==
  /\ frame.key \in DOMAIN registeredGoals
  /\ registeredGoals[frame.key].resolve = ""
  /\ goalDefQueryable(registeredGoals[frame.key])
  /\ HasQueriedFlag(frame)

\* C28: an iteration of the loop that finds a queried query goal at the
\* cursor queues nothing and leaves the session as it is, and the iteration
\* after it looks one frame deeper; a frame's flag queried is not taken back
\* while the frame is on the stack; and the loop queues a goal's prompt or ask
\* only together with marking one more frame of that goal queried, so each
\* frame is prompted for at most once, also across turns
C28_QueriedGoalIsSkipped ==
  [][\A u \in Users :
       /\ (/\ pc[u] = "loop"
           /\ loop'[u] # loop[u]
           /\ IsQueriedQueryFrame(CursorFrame(u)))
          => /\ session'[u] = session[u]
             /\ outputMgr' = outputMgr
             /\ pc'[u] = "loop"
             /\ loop'[u].moreGoalsToSeek
             /\ ~resp'[u].goalStateChanged
             /\ loop'[u].goalNdx =
                  NextGoalNdx(resp[u].goalStateChanged, loop[u].goalNdx)
       /\ session'[u] # session[u]
          => \A key \in DOMAIN registeredGoals :
               QueriedCount(getGoalStates(session'[u]), key)
                 < QueriedCount(Frames(u), key)
               => Count(getGoalStates(session'[u]), key) < Count(Frames(u), key)
       /\ (/\ pc[u] = "loop"
           /\ pc'[u] = "loop"
           /\ Len(outputMgr'.askQueue) > Len(outputMgr.askQueue))
          => \A key \in DOMAIN registeredGoals :
               QueriedCount(getGoalStates(session'[u]), key)
                 > QueriedCount(Frames(u), key)
               <=> outputMgr'.askQueue[Len(outputMgr'.askQueue)].text
                     \in {registeredGoals[key].prompt, registeredGoals[key].ask}]_vars

\* a turn on the stack [bloodSugar:queried], left by an earlier turn, whose
\* intent adds goalC: the loop has queued goalC's prompt alone, has skipped
\* the queried frame below it and has halted past the bottom of the stack
C28_Witness ==
  \E u \in Users :
    /\ pc[u] = "flush"
    /\ getGoalStates(hist[u].pre) = <<QueriedFrame(bloodSugar)>>
    /\ Frames(u) = <<QueriedFrame(bloodSugar), QueriedFrame(goalC)>>
    /\ hist[u].iters = 3
    /\ loop[u].goalNdx = 2
    /\ FragsOf(hist[u].produced) = <<Frag(registeredGoals[goalC].prompt, u)>>

C30_EmptyCompositionIsSilent ==
  [][\A u \in Users :
       (/\ pc[u] = "flush"
        /\ pc'[u] # "flush"
        /\ outputMgr.sayQueue = <<>>
        /\ outputMgr.askQueue = <<>>)
       => /\ pc'[u] = "done"
          /\ platReq'[u].said = <<>>
          /\ platReq'[u].endSession = "false"]_vars

\* the same for the engines on which no spokenRate was set
C30_SilentWithoutSpokenRate ==
  [][\A u \in Users :
       (/\ pc[u] = "flush"
        /\ pc'[u] # "flush"
        /\ outputMgr.spokenRate = "null"
        /\ outputMgr.sayQueue = <<>>
        /\ outputMgr.askQueue = <<>>)
       => /\ pc'[u] = "done"
          /\ platReq'[u].said = <<>>
          /\ platReq'[u].endSession = "false"]_vars

\* the prompt and ask fragments u's turn has produced, in order
AskFrags(u) == FragsOf(SelectSeq(hist[u].produced, IsAsk))

\* the say fragments u's turn has produced, in order
SayFrags(u) == FragsOf(SelectSeq(hist[u].produced, IsSay))

\* the ask buffer as the claim composes it: the pause, the first fragment,
\* ', ' before every further fragment but the last, ' or ' before the last
RECURSIVE ClaimedAskPart(_, _)
ClaimedAskPart(frags, ndx) ==
  IF ndx > Len(frags) THEN <<>>
  ELSE (IF ndx = 1 THEN <<pauseStr>>
        ELSE IF ndx = Len(frags) THEN <<Sep(" or ")>>
        ELSE <<Sep(", ")>>)
       \o <<frags[ndx]>> \o ClaimedAskPart(frags, ndx + 1)

\* the last n elements of seq
Suffix(seq, n) == SubSeq(seq, Len(seq) - n + 1, Len(seq))

\* C31: the output of a turn that prompted or asked (no spokenRate set) ends
\* with the ask buffer composed as: the 500 ms pause, the first fragment,
\* then every further fragment joined with ', ' and the last of two or more
\* joined with ' or ', whether or not anything was said before it
C31_AskBufferComposition ==
  \A u \in Users :
    (/\ pc[u] = "done"
     /\ outputMgr.spokenRate = "null"
     /\ AskFrags(u) # <<>>)
    => LET out == platReq[u].said[1]
           claimed == ClaimedAskPart(AskFrags(u), 1)
       IN  /\ platReq[u].said # <<>>
           /\ Len(out) >= Len(claimed)
           /\ Suffix(out, Len(claimed)) = claimed

\* the same for the turns that said something before they prompted or asked
C31_CompositionAfterSay ==
  \A u \in Users :
    (/\ pc[u] = "done"
     /\ outputMgr.spokenRate = "null"
     /\ AskFrags(u) # <<>>
     /\ SayFrags(u) # <<>>)
    => LET out == platReq[u].said[1]
           claimed == ClaimedAskPart(AskFrags(u), 1)
       IN  /\ platReq[u].said # <<>>
           /\ Len(out) >= Len(claimed)
           /\ Suffix(out, Len(claimed)) = claimed

\* with nothing said, the fragments are joined as claimed but the pause is
\* left out
C31_NoPauseOnEmptySay ==
  \A u \in Users :
    (/\ pc[u] = "done"
     /\ outputMgr.spokenRate = "null"
     /\ AskFrags(u) # <<>>
     /\ SayFrags(u) = <<>>)
    => platReq[u].said = <<Tail(ClaimedAskPart(AskFrags(u), 1))>>

\* a turn that said something and then prompted three times
C31_AfterSayReached ==
  \E u \in Users :
    /\ pc[u] = "done"
    /\ outputMgr.spokenRate = "null"
    /\ SayFrags(u) # <<>>
    /\ Len(AskFrags(u)) >= 2

\* C32: from the moment the callback chosen for an inbound intent is called,
\* the session holds the request's value for every slot of the request (the
\* slot bloodSugar of the BloodSugar intent), also when the session held no
\* value for it before the turn
C32_SlotsCopiedBeforeDispatch ==
  \A u \in Users :
    (/\ pc[u] \in {"intentPending", "failed", "loop", "goalPending", "flush", "done"}
     /\ "bloodSugar" \in platReq[u].slots)
    => /\ hist[u].intent = "BloodSugar"
       /\ session[u].bloodSugar \in SlotValues

\* the BloodSugar intent's callback has just been called in a turn that began
\* with the session variable unset
C32_Witness ==
  \E u \in Users :
    /\ pc[u] = "intentPending"
    /\ hist[u].intent = "BloodSugar"
    /\ pending[u].cb = "setBloodSugar"
    /\ hist[u].pre.bloodSugar = undefined
    /\ session[u].bloodSugar \in SlotValues

\* the utterance is one of the entry's expecting
Expects(intentDef, utterance) ==
  \E n \in 1..Len(intentDef.expecting) : intentDef.expecting[n] = utterance

RECURSIVE NestedIds(_, _, _, _)
\* the identities, from base + ndx on, of the nested entries that expect
\* the utterance, in order
NestedIds(nested, base, utterance, ndx) ==
  IF ndx > Len(nested) THEN <<>>
  ELSE (IF Expects(nested[ndx], utterance) THEN <<base + ndx>> ELSE <<>>)
       \o NestedIds(nested, base, utterance, ndx + 1)

\* what defineGoal(g) with the nested entries must have done to the tables
\* before to give the tables after
DesugaredAs(before, after, g) ==
  LET nested == after.registeredGoals[g].respondTo
  IN  /\ after.registeredGoals[g] # NoGoalDef
      /\ \A k \in RegGoalKeys \ {g} :
           after.registeredGoals[k] = before.registeredGoals[k]
      /\ \A n \in 1..Len(nested) : nested[n].goal = g
      /\ after.defs = before.defs \o nested
      /\ after.allIntents
           = before.allIntents \o [n \in 1..Len(nested) |-> nested[n].expecting]
      /\ \A utterance \in Utterances :
           after.userSpeechDef[utterance]
             = before.userSpeechDef[utterance]
                 \o NestedIds(nested, Len(before.defs), utterance, 1)

\* C33: a call of defineGoal(g) indexes every nested respondTo entry as an
\* intent definition of its own, with goal g whatever goal the entry carried,
\* under each of its utterances and in the order of the entries, as respondTo
\* would have indexed that definition, and adds nothing else
C33_NestedRespondToDesugared ==
  [][(reg'.last = "defineGoal" /\ reg'.calls = reg.calls + 1)
     => \E g \in RegGoalKeys : DesugaredAs(reg, reg', g)]_vars

\* defineGoal(bloodSugar) with a nested entry that expects 'a' and 's' and
\* carried the goal checkInDetails: the definition indexed under both
\* utterances has the goal bloodSugar
C33_Witness ==
  /\ reg.last = "defineGoal"
  /\ reg.defs # <<>>
  /\ reg.defs[Len(reg.defs)]
       = [name |-> NoName, expecting |-> <<"a", "s">>, goal |-> bloodSugar]
  /\ reg.userSpeechDef["a"] # <<>>
  /\ reg.userSpeechDef["a"][Len(reg.userSpeechDef["a"])] = Len(reg.defs)
  /\ reg.userSpeechDef["s"][Len(reg.userSpeechDef["s"])] = Len(reg.defs)
  /\ Len(reg.userSpeechDef["s"]) >= 2

\* the frame's goal is registered with a resolve callback
IsResolverFrame(frame) ==
  /\ frame.key \in DOMAIN registeredGoals
  /\ registeredGoals[frame.key].resolve # ""

\* C34: in every session state, no frame of a goal that is registered with a
\* resolve callback carries the flag queried, whatever turns, pushes and
\* removals came before
C34_ResolverGoalsNeverQueried ==
  \A u \in Users :
    \A n \in 1..Len(Frames(u)) :
      IsResolverFrame(Frames(u)[n]) => Frames(u)[n].flags = <<>>

\* a turn that started its loop on three frames, two of them of the
\* resolver goal R above a queried prompt goal, and removed one of them
C34_Witness ==
  \E u \in Users :
    /\ pc[u] = "done"
    /\ Len(hist[u].loopStart) = 3
    /\ hist[u].loopStart[1] = QueriedFrame(goalC)
    /\ Frames(u) = <<QueriedFrame(goalC), Frame(goalR)>>

\* the keys the script pushes
ScriptKeys == DOMAIN registeredGoals \cup {goalU}

\* hasGoal(k) and clearGoal(k) agree with the decoded stack of the session
AgreesWithFrames(sess, k) ==
  LET frames == getGoalStates(sess)
      found == \E n \in 1..Len(frames) : frames[n].key = k
  IN  /\ hasGoal(sess, k) <=> found
      /\ clearGoal(sess, k) # sess => found

\* C35: on every stack a session reaches and for every key of letters, a
\* goal's key or a word such as 'queried', hasGoal(k) is true exactly when a
\* frame of the decoded stack has the key k, and clearGoal(k) changes the
\* stack only then
C35_HasGoalAgreesWithFrames ==
  \A u \in Users :
    \A k \in ScriptKeys \cup {queried} : AgreesWithFrames(session[u], k)

\* the same for the keys of the script's goals alone
C35_AgreesForGoalKeys ==
  \A u \in Users : \A k \in ScriptKeys : AgreesWithFrames(session[u], k)

\* a stack with both C and CD, one key a prefix of the other, is reached
C35_PrefixKeysReached ==
  \E u \in Users :
    /\ Count(Frames(u), goalC) > 0
    /\ Count(Frames(u), checkInDetails) > 0

\* the registered intents, of the set handlers, that have the utterance
IntentsFor(handlers, utterance) ==
  {h \in handlers : utterance \in SeqRange(h.utterances)}

\* every utterance some definition declared is an utterance of exactly one
\* intent of handlers, and that intent is bound to the definitions that
\* declared the utterance and to no other
RegisteredOnce(handlers) ==
  \A utterance \in Utterances :
    DeclaredBy(utterance) # {}
    => /\ Cardinality(IntentsFor(handlers, utterance)) = 1
       /\ \A h \in IntentsFor(handlers, utterance) :
            SeqRange(intentDefArr(reg, h)) = DeclaredBy(utterance)

\* C36: after registerIntents every utterance passed to respondTo, directly
\* or as a goal's nested entry, is an utterance of exactly one intent of the
\* platform's table, and that intent's handler dispatches to the definitions
\* that declared the utterance and to no other
C36_UtteranceRegisteredOnce ==
  reg.last = "registerIntents" => RegisteredOnce(intentHandlers(reg.regCalls))

\* the same of the calls of platforms.regIntent
C36_OneRegIntentCall ==
  reg.last = "registerIntents"
  => /\ RegisteredOnce(SeqRange(reg.regCalls))
     /\ \A m, n \in 1..Len(reg.regCalls) :
          SeqRange(reg.regCalls[m].utterances) \cap SeqRange(reg.regCalls[n].utterances) # {}
          => m = n

\* the same of the platform's table when no definition has a name
C36_OnceWhenUnnamed ==
  (reg.last = "registerIntents"
   /\ \A id \in 1..Len(reg.defs) : reg.defs[id].name = NoName)
  => RegisteredOnce(intentHandlers(reg.regCalls))
====
